---------------------------- MODULE Spec2Model ----------------------------
(***************************************************************************)
(* A model of goms, a minimal SMTP receiving server (abligh/goms).         *)
(*                                                                         *)
(* The module models one inbound connection (goms/inboundconnection.go):   *)
(* serveLoop with Receive, Process, the verb handlers and Send, and the    *)
(* body loop of doDATA, one ReadSlice per step.  It also models the       *)
(* supervisor (smtpd: ParseConfig, RunConfig, StartServer): the loading of *)
(* the configuration, the goroutines of the listeners, the reload on       *)
(* SIGHUP and the shutdown.  The session specifications leave the          *)
(* supervisor where it starts (a connection served on its own, as the      *)
(* tests of the connection do), and the supervisor specifications leave    *)
(* the connection as constructed.                                          *)
(*                                                                         *)
(* Bytes, words and addresses are sequences of one-character strings       *)
(* ("CR" and "LF" stand for \r and \n).  Sizes are scaled down: the        *)
(* reader's buffer (4096 bytes in the source), the message size limit      *)
(* (20 MiB by default, a parameter) and the margin of the early size check *)
(* (1024 bytes) keep their roles and their order of magnitude relations    *)
(* are noted where they are defined.                                       *)
(***************************************************************************)
EXTENDS Naturals, Sequences, FiniteSets, TLC

VARIABLES
    pc,                   \* where serveLoop stands: "greet", "recv", "proc", "body", "done"
    err,                  \* what serveLoop returned with: "nil", "io", "itp", "bufferfull"
    cmd,                  \* the ICCommand Receive returned
    inTransaction,        \* c.inTransaction
    ReversePath,          \* c.ReversePath
    RecipientList,        \* c.RecipientList
    unrecognisedCommands, \* c.unrecognisedCommands
    needsFlush,           \* c.needsFlush
    wbuf,                 \* responses written to c.wr and not yet flushed
    rdBuffered,           \* c.rd.Buffered() > 0, as the next Receive finds it
    body,                 \* doDATA: body
    startOfLine,          \* doDATA: startOfLine
    oversize,             \* doDATA: oversize
    wire,                 \* history: the body bytes ReadSlice consumed since the 354; in
                          \* SpecBytes also the bytes the last Receive consumed
    sent,                 \* history: the response the last step handed to Send (<<>> or <<r>>)
    out,                  \* history: the responses the last step put on the stream
    itp,                  \* history: the ITP call the last step made (<<>> or <<call>>)
    serve,                \* where Serve stands: "waiting" in its select, or returned
                          \* ("cancelled": on ctx.Done(), "finished": on done)
    closed,               \* c.plainConn.Close() has run
    bufLeft,              \* once the stream is closed: the complete lines left in c.rd's buffer
    rdin,                 \* the bytes in c.rd's buffer, in the specifications that follow the
                          \* reader byte by byte (SpecBytes); the others keep rdBuffered only
    run,                  \* where RunConfig stands: "load" (top of its loop), "select",
                          \* "wait" (wg.Wait() after a SIGHUP), "shutdown" (the deferred
                          \* function: sessionWaitGroup.Wait()), "exited"
    loads,                \* the iterations of RunConfig's loop that loaded a configuration;
                          \* the n-th has its own wg and configCtx
    confRead,             \* history: the server entries the last ParseConfig unmarshalled
    servers,              \* c.Servers of the last ParseConfig
    configCancelled,      \* the iterations whose configCancelFunc() was called
    rootCancelled,        \* RunConfig's cancelFunc() was called
    wg,                   \* the counter of each iteration's wg
    listeners,            \* the goroutines started for the servers: for each iteration, how
                          \* many stand before wg.Add(1) ("go"), before StartServer
                          \* ("added") and in Listen ("listening")
    sessionWaitGroup,     \* the counter of sessionWaitGroup
    sessions,             \* history: how many sessions have "finished" (Serve returned on
                          \* done) and how many were "cancelled" (on ctx.Done())
    reason                \* history: why RunConfig left its loop ("none" while it runs)

vars == <<pc, err, cmd, inTransaction, ReversePath, RecipientList,
          unrecognisedCommands, needsFlush, wbuf, rdBuffered,
          body, startOfLine, oversize, wire, sent, out, itp,
          serve, closed, bufLeft, rdin,
          run, loads, confRead, servers, configCancelled, rootCancelled, wg,
          listeners, sessionWaitGroup, sessions, reason>>

\* the state of a connection, and the state of the supervisor
connVars == <<pc, err, cmd, inTransaction, ReversePath, RecipientList,
              unrecognisedCommands, needsFlush, wbuf, rdBuffered,
              body, startOfLine, oversize, wire, sent, out, itp,
              serve, closed, bufLeft, rdin>>
supVars == <<run, loads, confRead, servers, configCancelled, rootCancelled, wg,
             listeners, sessionWaitGroup, sessions, reason>>

txVars == <<inTransaction, ReversePath, RecipientList>>
srvVars == <<serve, closed>>
dataVars == <<body, startOfLine, oversize>>

---------------------------------------------------------------------------
(* Program constants.                                                      *)

maxUnrecognisedCommands == 20

\* the port of the default address
GOMS_DEFAULT_PORT == 25

\* bufio.NewReaderSize(c.conn, 4096), scaled: the longest line ReadSlice returns.
RdBufSize == 4

\* params.MaxMessageSize (20 MiB by default), scaled; like 20 MiB it is larger
\* than RdBufSize: a body within the limit can hold a line the reader's buffer
\* cannot.
MaxMessageSize == 5

\* the 1024 of "c.params.MaxMessageSize+1024", scaled; like 1024 it is larger
\* than the two bytes of a line end.
SoftMargin == 3

(* Bounds of the model.                                                    *)

\* the peer sends at most this many recipients in one transaction
MaxRcpt == 1

\* the peer sends at most this many unrecognised commands in a session of Spec
MaxUnknown == 1

\* the peer pipelines at most this many commands behind an unflushed reply
MaxPipeline == 1

\* the peer sends at most this many body bytes in a session of Spec
MaxSessionWire == 9

\* the peer sends at most this many body bytes in SpecData
MaxWire == 9

\* the most bytes of a body of SpecBig: enough to cross the soft threshold
\* (MaxMessageSize + SoftMargin) and to read a buffer-full and a terminator
\* after it
MaxBigWire == 16

\* a pipelining peer sends at most this many recipients in one transaction
PipeRcpt == 2

\* a pipelining peer sends at most this many commands behind an unflushed reply
PipeDepth == 2

\* the addresses of SpecAddr have at most this many bytes
MaxAddr == 5

\* at most this many complete lines are in the reader's buffer when the stream
\* is closed under the command loop
MaxBuffered == 2

\* RunConfig loads at most this many configurations (one less reloads)
MaxLoads == 2

\* a configuration file has at most this many server entries
MaxServers == 2

\* the listeners accept at most this many connections
MaxSessions == 2

---------------------------------------------------------------------------
(* Sequences of bytes.                                                     *)

crlf == <<"CR", "LF">>

HasSuffix(s, suffix) ==
    /\ Len(s) >= Len(suffix)
    /\ SubSeq(s, Len(s) - Len(suffix) + 1, Len(s)) = suffix

HasPrefix(s, prefix) ==
    /\ Len(s) >= Len(prefix)
    /\ SubSeq(s, 1, Len(prefix)) = prefix

\* all sequences over S of length exactly n
RECURSIVE SeqsOfLen(_, _)
SeqsOfLen(S, n) ==
    IF n = 0 THEN {<<>>}
    ELSE {<<x>> \o t : x \in S, t \in SeqsOfLen(S, n - 1)}

\* all sequences over S of length at most n
SeqsUpTo(S, n) == UNION {SeqsOfLen(S, k) : k \in 0..n}

\* strings.ToLower / strings.ToUpper on the characters and words the model uses
ToLowerChar(ch) ==
    CASE ch = "A" -> "a"
      [] ch = "B" -> "b"
      [] ch = "D" -> "d"
      [] OTHER -> ch

ToLower(s) == [i \in 1..Len(s) |-> ToLowerChar(s[i])]

ToUpper(w) ==
    CASE w = "mail" -> "MAIL"
      [] w = "Rcpt" -> "RCPT"
      [] w = "from" -> "FROM"
      [] w = "to"   -> "TO"
      [] w = "quit" -> "QUIT"
      [] OTHER -> w

---------------------------------------------------------------------------
(* Responses.                                                              *)

\* ICResponseLine; addr is the address a handler formats into the text
ICRL(code, text, addr) == [code |-> code, text |-> text, addr |-> addr]

newICRL(code, text) == <<ICRL(code, text, <<>>)>>

\* ICResponse
ICResponse(lines, final, canPipeline) ==
    [lines |-> lines, final |-> final, canPipeline |-> canPipeline]

IsErrorLow(r) ==
    IF Len(r.lines) = 0 THEN FALSE
    ELSE r.lines[1].code > 400 /\ r.lines[1].code <= 599

IsErrorHigh(r) ==
    IF Len(r.lines) = 0 THEN FALSE
    ELSE r.lines[1].code >= 400 /\ r.lines[1].code < 599

IsError(r) ==
    IF Len(r.lines) = 0 THEN FALSE
    ELSE r.lines[1].code >= 400 /\ r.lines[1].code <= 599

\* the code of a response's first line (0 for a response without lines)
Code(r) == IF Len(r.lines) = 0 THEN 0 ELSE r.lines[1].code

---------------------------------------------------------------------------
(* The transaction processor: what a hook may return, (r, err).            *)
(* r is <<>> for nil and <<response>> otherwise.                           *)

ITPResponses ==
    { ICResponse(newICRL(250, "OK"), FALSE, FALSE),
      ICResponse(newICRL(399, "just below"), FALSE, FALSE),
      ICResponse(newICRL(400, "lowest error"), FALSE, FALSE),
      ICResponse(newICRL(599, "highest error"), FALSE, FALSE),
      ICResponse(newICRL(600, "just above"), FALSE, FALSE),
      ICResponse(newICRL(550, "5.5.0 Error: prohibited"), TRUE, FALSE),
      ICResponse(newICRL(250, "OK: queued as 1"), FALSE, TRUE),
      ICResponse(newICRL(421, "4.7.0 Error: closing"), TRUE, TRUE),
      ICResponse(<<>>, FALSE, FALSE) }

ITPReturns ==
    {[r |-> <<>>, err |-> FALSE], [r |-> <<>>, err |-> TRUE],
     [r |-> <<ICResponse(newICRL(550, "5.5.0 Error: prohibited"), FALSE, FALSE)>>, err |-> TRUE]}
    \cup {[r |-> <<x>>, err |-> FALSE] : x \in ITPResponses}

\* the test "r != nil && r.IsError() || err != nil" of doMAIL and doRCPT
Rejects(ret) == (ret.r # <<>> /\ IsError(ret.r[1])) \/ ret.err

\* a hook called after the transaction state was cleared
ITPCallAfterReset(hook, arg, ret) ==
    [hook |-> hook, arg |-> arg, r |-> ret.r, err |-> ret.err,
     tx |-> [inTransaction |-> FALSE, ReversePath |-> <<>>, RecipientList |-> <<>>]]

\* a call of a hook: its argument, what it returned, and the transaction state
\* of the connection it was handed
ITPCall(hook, arg, ret) ==
    [hook |-> hook, arg |-> arg, r |-> ret.r, err |-> ret.err,
     tx |-> [inTransaction |-> inTransaction, ReversePath |-> ReversePath,
             RecipientList |-> RecipientList]]

---------------------------------------------------------------------------
(* Addresses and the arguments of MAIL and RCPT.                           *)

Count(s, ch) == Cardinality({i \in 1..Len(s) : s[i] = ch})

IndexOf(s, ch) == IF Count(s, ch) = 0 THEN 0
                  ELSE CHOOSE i \in 1..Len(s) : s[i] = ch /\ \A j \in 1..(i - 1) : s[j] # ch

\* ([^@:]+)@([^@:]+) on the whole of s
IsLocalAtDomain(s) ==
    /\ Count(s, ":") = 0
    /\ Count(s, "@") = 1
    /\ IndexOf(s, "@") > 1
    /\ IndexOf(s, "@") < Len(s)

\* inboundRE: ^([^:]+:)?([^@:]+)@([^@:]+)$ ; the part after the optional route, or <<>>
InboundMatch(a) ==
    IF Count(a, ":") = 0 THEN (IF IsLocalAtDomain(a) THEN a ELSE <<>>)
    ELSE LET i == IndexOf(a, ":")
             rest == SubSeq(a, i + 1, Len(a))
         IN IF i > 1 /\ IsLocalAtDomain(rest) THEN rest ELSE <<>>

CanonicaliseKeepCase(a) == InboundMatch(a)

\* CanonicaliseInboundAddress: <<>> stands for nil
CanonicaliseInboundAddress(a) ==
    LET m == InboundMatch(a)
    IN IF m = <<>> THEN <<>>
       ELSE LET at == IndexOf(m, "@")
            IN SubSeq(m, 1, at) \o ToLower(SubSeq(m, at + 1, Len(m)))

\* the longest prefix of s holding neither "<" nor ">"
RECURSIVE NoAngles(_)
NoAngles(s) ==
    IF s = <<>> \/ s[1] \in {"<", ">"} THEN <<>>
    ELSE <<s[1]>> \o NoAngles(Tail(s))

RECURSIVE SkipSpaces(_)
SkipSpaces(s) == IF s # <<>> /\ s[1] = " " THEN SkipSpaces(Tail(s)) ELSE s

KeywordMatchNoColon(keyword, params) ==
    IF Len(params) >= 1 /\ ToUpper(params[1]) = keyword
    THEN LET s == SkipSpaces(SubSeq(params, 2, Len(params)))
             t == IF s # <<>> /\ s[1] = "<" THEN Tail(s) ELSE s
         IN <<NoAngles(t)>>
    ELSE <<>>

\* ^<keyword>:\s*<?([^<>]*)>?.* on params, whose first element is the keyword
\* as the peer typed it; the result is <<>> (no match) or <<capture>>
KeywordMatch(keyword, params) ==
    IF Len(params) >= 2 /\ ToUpper(params[1]) = keyword /\ params[2] = ":"
    THEN LET s == SkipSpaces(SubSeq(params, 3, Len(params)))
             t == IF s # <<>> /\ s[1] = "<" THEN Tail(s) ELSE s
         IN <<NoAngles(t)>>
    ELSE <<>>

mailFromRE(params) == KeywordMatch("FROM", params)

rcptToRE(params) == KeywordMatch("TO", params)

---------------------------------------------------------------------------
(* What the peer sends.                                                    *)

\* a command line as ReadLine returns it (without its line end): a sequence of
\* words and separators
A_AT_B == <<"a", "@", "b">>
C_AT_D == <<"c", "@", "d">>

MailLines ==
    { <<"MAIL", " ", "FROM", ":", "<", "a", "@", "b", ">">>,
      <<"mail", " ", "from", ":", "<", ">">>,
      <<"MAIL", " ", "FROM", " ", "<", "a", "@", "a", ">">> }

RcptLines ==
    { <<"RCPT", " ", "TO", ":", "<", "a", "@", "B", ">">>,
      <<"RCPT", " ", "to", ":", " ", "r", ":", "c", "@", "D">>,
      <<"RCPT", " ", "TO", ":", "<", "a", "a", ">">>,
      <<"RCPT", " ", "TO", " ", "<", "a", "@", "a", ">">> }

PlainLines ==
    { <<"HELO", " ", "x">>, <<"EHLO", " ", "x">>, <<"DATA">>, <<"RSET">>,
      <<"VRFY", " ", "a", "a">>, <<"EXPN", " ", "a", "a">>, <<"HELP">>,
      <<"NOOP">>, <<"quit">> }

UnknownLines == { <<"WOMBAT">>, <<>> }

CommandLines == MailLines \cup RcptLines \cup PlainLines \cup UnknownLines

\* the lines of a peer that floods the session with unrecognised commands
FloodLines ==
    UnknownLines \cup
    { <<"MAIL", " ", "FROM", ":", "<", "a", "@", "b", ">">>, <<"HELO", " ", "x">>,
      <<"NOOP">>, <<"RSET">>, <<"quit">> }

\* body lines: bytes up to and including a line feed, as ReadSlice returns them
LineEnds == { <<"LF">>, crlf }

BodyLinesUpTo(n) ==
    { l \in { c \o e : c \in SeqsUpTo({".", "x"}, n - 1), e \in LineEnds } : Len(l) <= n }

\* every body line that fits the reader's buffer
AllBodyLines == BodyLinesUpTo(RdBufSize)

\* what fills the reader's buffer when a line does not fit it
AllFragments ==
    { SubSeq(l, 1, RdBufSize) : l \in BodyLinesUpTo(RdBufSize + 1) \ AllBodyLines }

\* the body lines of a session of Spec
SessionBodyLines ==
    { <<".", "CR", "LF">>, <<"x", "CR", "LF">>, <<"x", "LF">>, <<".", "x", "CR", "LF">> }

SessionFragments == { <<"x", "x", "x", "x">> }

---------------------------------------------------------------------------
(* Process: the split of a command line and the verb table.                *)

ICCommand(buf, invalid) == [buf |-> buf, invalid |-> invalid]

\* bytes.SplitN(line, " ", 2): the part before the first space and the rest
Words(buf) ==
    IF Count(buf, " ") = 0 THEN <<buf, <<>>>>
    ELSE LET i == IndexOf(buf, " ")
         IN <<SubSeq(buf, 1, i - 1), SubSeq(buf, i + 1, Len(buf))>>

\* strings.ToUpper(string(words[0])); a first part that is no single word is
\* no verb of the table, like the empty line
Verb(buf) == LET w == Words(buf)[1] IN IF Len(w) = 1 THEN ToUpper(w[1]) ELSE ""

Params(buf) == Words(buf)[2]

verbs == {"HELO", "EHLO", "MAIL", "RCPT", "DATA", "RSET", "VRFY", "EXPN", "HELP", "NOOP", "QUIT"}

IsUnknown(buf) == Verb(buf) \notin verbs

---------------------------------------------------------------------------
(* Send.                                                                   *)

\* a write to the stream succeeds or fails; on a closed stream it fails
WriteOutcomesIgnoreClose == BOOLEAN

WriteOutcomes == IF closed THEN {FALSE} ELSE BOOLEAN

\* a read returns a line: from the stream, or, once the stream is closed, from
\* what is left in the reader's buffer
LineAvailable == closed => bufLeft > 0

\* the read fails: on the closed stream only when the buffer holds no line
NoLineAvailable == closed => bufLeft = 0

\* the line is taken out of the buffer; more tells whether bytes stay behind
LineTaken(more) ==
    /\ bufLeft' = IF closed THEN bufLeft - 1 ELSE bufLeft
    /\ (closed /\ bufLeft > 1) => more

\* ReadLine returns a line: as ReadSlice does, or, when the read of the
\* stream fails while bytes without a line feed are buffered, those bytes
\* (bufio drops the error of a read that returns bytes)
CommandAvailable == closed => (bufLeft > 0 \/ rdBuffered)

CommandTaken(more) ==
    /\ bufLeft' = IF closed /\ bufLeft > 0 THEN bufLeft - 1 ELSE bufLeft
    /\ (closed /\ bufLeft > 1) => more
    /\ (closed /\ bufLeft = 0) => ~more

\* Send(r): the lines go to the buffered writer; the writer is flushed unless
\* r.canPipeline.  wok tells whether the write to the stream succeeds.
SendAlwaysFlush(r, wok) ==
    LET buf == wbuf \o <<r>>
    IN IF wok THEN [ok |-> TRUE, wbuf |-> <<>>, needsFlush |-> FALSE, out |-> buf]
       ELSE [ok |-> FALSE, wbuf |-> buf, needsFlush |-> FALSE, out |-> <<>>]

SendReorders(r, wok) ==
    LET buf == <<r>> \o wbuf
    IN IF r.canPipeline
       THEN [ok |-> TRUE, wbuf |-> buf, needsFlush |-> TRUE, out |-> <<>>]
       ELSE IF wok
            THEN [ok |-> TRUE, wbuf |-> <<>>, needsFlush |-> FALSE, out |-> buf]
            ELSE [ok |-> FALSE, wbuf |-> buf, needsFlush |-> FALSE, out |-> <<>>]

Send(r, wok) ==
    LET buf == wbuf \o <<r>>
    IN IF r.canPipeline
       THEN [ok |-> TRUE, wbuf |-> buf, needsFlush |-> TRUE, out |-> <<>>]
       ELSE IF wok
            THEN [ok |-> TRUE, wbuf |-> <<>>, needsFlush |-> FALSE, out |-> buf]
            ELSE [ok |-> FALSE, wbuf |-> buf, needsFlush |-> FALSE, out |-> <<>>]

RespondIgnoresFinal(r, wok) ==
    LET s == Send(r, wok)
    IN /\ sent' = <<r>>
       /\ out' = s.out
       /\ wbuf' = s.wbuf
       /\ needsFlush' = s.needsFlush
       /\ pc' = IF ~s.ok THEN "done" ELSE "recv"
       /\ err' = IF ~s.ok THEN "io" ELSE err

\* serveLoop after Process: Send the response, return on a failed Send, leave the
\* loop after a final response
Respond(r, wok) ==
    LET s == Send(r, wok)
    IN /\ sent' = <<r>>
       /\ out' = s.out
       /\ wbuf' = s.wbuf
       /\ needsFlush' = s.needsFlush
       /\ pc' = IF ~s.ok \/ r.final THEN "done" ELSE "recv"
       /\ err' = IF ~s.ok THEN "io" ELSE err

AbortGoesOn(e) ==
    /\ pc' = "recv"
    /\ err' = err
    /\ sent' = <<>>
    /\ out' = <<>>
    /\ UNCHANGED <<wbuf, needsFlush>>

\* serveLoop returns the error Process returned; nothing is sent
Abort(e) ==
    /\ pc' = "done"
    /\ err' = e
    /\ sent' = <<>>
    /\ out' = <<>>
    /\ UNCHANGED <<wbuf, needsFlush>>

---------------------------------------------------------------------------
(* The responses of the handlers.                                          *)

GreetingHostname == "localhost"

Banner == ICResponse(newICRL(220, "localhost ESMTP goms"), FALSE, FALSE)

HeloResponse == ICResponse(newICRL(250, GreetingHostname), FALSE, FALSE)

EhloResponse ==
    ICResponse(newICRL(250, GreetingHostname)
                 \o newICRL(250, "PIPELINING")
                 \o newICRL(250, "ENHANCEDSTATUSCODES")
                 \o newICRL(250, "8BITMIME")
                 \o newICRL(250, "SMTPUTF8")
                 \o newICRL(250, "SIZE <MaxMessageSize>"),
               FALSE, FALSE)

NestedMail == ICResponse(newICRL(503, "5.5.1 Error: nested MAIL commands"), FALSE, FALSE)

BadSender ==
    ICResponse(newICRL(550, "5.1.7 Error: bad envelope sender address format"), FALSE, FALSE)

MailOK(addr) == ICResponse(<<ICRL(250, "2.1.0 OK: mail is from", addr)>>, FALSE, TRUE)

RcptBeforeMail ==
    ICResponse(newICRL(503, "5.5.1 Error: missing MAIL command before RCPT"), FALSE, FALSE)

BadRcptComponent ==
    ICResponse(newICRL(550, "5.1.3 Error: bad envelope recepient address component"), FALSE, FALSE)

BadRcptFormat ==
    ICResponse(newICRL(550, "5.1.3 Error: bad envelope recepient address format"), FALSE, FALSE)

RcptOK(addr) == ICResponse(<<ICRL(250, "2.1.5 OK: mail recipient", addr)>>, FALSE, TRUE)

DataBeforeMail ==
    ICResponse(newICRL(503, "5.5.1 Error: missing MAIL command before DATA"), FALSE, FALSE)

NoRecipients == ICResponse(newICRL(553, "5.5.1 Error: no valid recipients"), FALSE, FALSE)

Ready == ICResponse(newICRL(354, "354 End data with <CR><LF>.<CR><LF>"), FALSE, FALSE)

TooBig == ICResponse(newICRL(552, "4.3.4 Error: message too big for system"), FALSE, FALSE)

Queued == ICResponse(newICRL(250, "2.0.0 OK: queued (ID unknown)"), FALSE, FALSE)

RsetOK == ICResponse(newICRL(250, "2.0.0 OK"), FALSE, TRUE)

NotImplemented == ICResponse(newICRL(502, "5.5.1 Error: command not implemented"), FALSE, TRUE)

HelpOK == ICResponse(newICRL(250, "2.0.0 OK: but I currently have no help to give"), FALSE, FALSE)

NoopOK == ICResponse(newICRL(250, "2.0.0 OK"), FALSE, FALSE)

Bye == ICResponse(newICRL(221, "2.0.0 Bye"), TRUE, FALSE)

CommandUnknown(final) == ICResponse(newICRL(500, "5.5.2 Error: command unknown"), final, FALSE)

InvalidLineLength == ICResponse(newICRL(500, "5.5.0 Error: invalid line length"), FALSE, FALSE)

---------------------------------------------------------------------------
(* The state after construction, when Serve starts serveLoop.              *)

NoCommand == ICCommand(<<>>, FALSE)

\* RunConfig when it enters its loop: nothing loaded, no listener, no session
SupervisorStarts ==
    /\ run = "load"
    /\ loads = 0
    /\ confRead = <<>>
    /\ servers = <<>>
    /\ configCancelled = {}
    /\ rootCancelled = FALSE
    /\ wg = [n \in 1..MaxLoads |-> 0]
    /\ listeners = [n \in 1..MaxLoads |-> [go |-> 0, added |-> 0, listening |-> 0]]
    /\ sessionWaitGroup = 0
    /\ sessions = [finished |-> 0, cancelled |-> 0]
    /\ reason = "none"

Init ==
    /\ pc = "greet"
    /\ err = "nil"
    /\ cmd = NoCommand
    /\ inTransaction = FALSE
    /\ ReversePath = <<>>
    /\ RecipientList = <<>>
    /\ unrecognisedCommands = 0
    /\ needsFlush = FALSE
    /\ wbuf = <<>>
    /\ rdBuffered = FALSE
    /\ body = <<>>
    /\ startOfLine = TRUE
    /\ oversize = FALSE
    /\ wire = <<>>
    /\ sent = <<>>
    /\ out = <<>>
    /\ itp = <<>>
    /\ serve = "waiting"
    /\ closed = FALSE
    /\ bufLeft = 0
    /\ rdin = <<>>
    /\ SupervisorStarts

\* reset
resetKeepsReversePath ==
    /\ RecipientList' = <<>>
    /\ ReversePath' = ReversePath
    /\ inTransaction' = FALSE

resetKeepsRecipients ==
    /\ RecipientList' = RecipientList
    /\ ReversePath' = <<>>
    /\ inTransaction' = FALSE

reset ==
    /\ RecipientList' = <<>>
    /\ ReversePath' = <<>>
    /\ inTransaction' = FALSE

---------------------------------------------------------------------------
(* serveLoop before the loop: CheckConnection and the banner.              *)

Greet ==
    /\ pc = "greet"
    /\ \E ret \in ITPReturns, wok \in WriteOutcomes :
         /\ itp' = <<ITPCall("CheckConnection", <<>>, ret)>>
         /\ IF ret.err
            THEN Abort("itp")
            ELSE IF ret.r # <<>> /\ IsError(ret.r[1])
                 THEN LET s == Send(ret.r[1], wok)
                      IN /\ sent' = ret.r
                         /\ out' = s.out
                         /\ wbuf' = s.wbuf
                         /\ needsFlush' = s.needsFlush
                         /\ pc' = "done"
                         /\ err' = IF s.ok THEN "nil" ELSE "io"
                 ELSE LET s == Send(Banner, wok)
                      IN /\ sent' = <<Banner>>
                         /\ out' = s.out
                         /\ wbuf' = s.wbuf
                         /\ needsFlush' = s.needsFlush
                         /\ pc' = IF s.ok THEN "recv" ELSE "done"
                         /\ err' = IF s.ok THEN "nil" ELSE "io"
    /\ UNCHANGED <<cmd, txVars, unrecognisedCommands, rdBuffered, dataVars, wire>>
    /\ UNCHANGED <<srvVars, bufLeft, rdin, supVars>>

---------------------------------------------------------------------------
(* Receive.                                                                *)

\* the flush Receive makes before it reads: only with a deferred flush pending
\* and nothing buffered in the reader
ReceiveFlushes == needsFlush /\ ~rdBuffered

\* the deferred flush fails: Receive returns the error
ReceiveFlushFails ==
    /\ pc = "recv"
    /\ ReceiveFlushes
    /\ needsFlush' = FALSE
    /\ pc' = "done"
    /\ err' = "io"
    /\ sent' = <<>>
    /\ out' = <<>>
    /\ itp' = <<>>
    /\ wire' = <<>>
    /\ UNCHANGED <<cmd, txVars, unrecognisedCommands, wbuf, rdBuffered, dataVars>>
    /\ UNCHANGED <<srvVars, bufLeft, rdin, supVars>>

\* ReadLine fails (the peer went away, the idle timeout passed, the stream was
\* closed): it returns an error only when it has no byte to return
ReceiveReadFails ==
    /\ pc = "recv"
    /\ ReceiveFlushes => ~closed
    /\ NoLineAvailable
    /\ ~rdBuffered
    /\ needsFlush' = (needsFlush /\ ~ReceiveFlushes)
    /\ wbuf' = IF ReceiveFlushes THEN <<>> ELSE wbuf
    /\ out' = IF ReceiveFlushes THEN wbuf ELSE <<>>
    /\ pc' = "done"
    /\ err' = "io"
    /\ sent' = <<>>
    /\ itp' = <<>>
    /\ wire' = <<>>
    /\ UNCHANGED <<cmd, txVars, unrecognisedCommands, rdBuffered, dataVars>>
    /\ UNCHANGED <<srvVars, bufLeft, rdin, supVars>>

\* ReadLine returns a line (invalid: the line did not fit the reader's buffer and
\* was swallowed); more tells whether bytes stay buffered in the reader
ReceiveLineWithin(lines, limit, rcpts, depth) ==
    /\ pc = "recv"
    /\ ReceiveFlushes => ~closed
    /\ CommandAvailable
    /\ \E buf \in lines, invalid \in BOOLEAN, more \in BOOLEAN :
         /\ CommandTaken(more)
         /\ IsUnknown(buf) /\ ~invalid => unrecognisedCommands < limit
         /\ Verb(buf) = "RCPT" => Len(RecipientList) < rcpts
         /\ more => Len(IF ReceiveFlushes THEN <<>> ELSE wbuf) < depth
         /\ invalid => (buf = <<>> /\ ~closed)
         /\ cmd' = ICCommand(buf, invalid)
         /\ rdBuffered' = more
    /\ needsFlush' = (needsFlush /\ ~ReceiveFlushes)
    /\ wbuf' = IF ReceiveFlushes THEN <<>> ELSE wbuf
    /\ out' = IF ReceiveFlushes THEN wbuf ELSE <<>>
    /\ pc' = "proc"
    /\ sent' = <<>>
    /\ itp' = <<>>
    /\ wire' = <<>>
    /\ UNCHANGED <<err, txVars, unrecognisedCommands, dataVars, srvVars, rdin, supVars>>

ReceiveLine(lines, limit) == ReceiveLineWithin(lines, limit, MaxRcpt, MaxPipeline)

---------------------------------------------------------------------------
(* Process and the verb handlers, each followed by serveLoop's Send.       *)

Dispatched(verb) == pc = "proc" /\ ~cmd.invalid /\ Verb(cmd.buf) = verb

\* what a handler without ITP call and body leaves alone
Untouched == UNCHANGED <<cmd, unrecognisedCommands, rdBuffered, dataVars, wire, srvVars, bufLeft, rdin, supVars>>

\* the over-long line: serveLoop answers it without Process
Invalid ==
    /\ pc = "proc"
    /\ cmd.invalid
    /\ \E wok \in WriteOutcomes : Respond(InvalidLineLength, wok)
    /\ itp' = <<>>
    /\ UNCHANGED txVars
    /\ Untouched

UnknownOffByOne ==
    /\ pc = "proc"
    /\ ~cmd.invalid
    /\ IsUnknown(cmd.buf)
    /\ unrecognisedCommands' = unrecognisedCommands + 1
    /\ \E wok \in WriteOutcomes :
         Respond(CommandUnknown(unrecognisedCommands' >= maxUnrecognisedCommands), wok)
    /\ itp' = <<>>
    /\ UNCHANGED txVars
    /\ UNCHANGED <<cmd, rdBuffered, dataVars, wire, srvVars, bufLeft, rdin, supVars>>

\* Process with a verb that is not in the table
Unknown ==
    /\ pc = "proc"
    /\ ~cmd.invalid
    /\ IsUnknown(cmd.buf)
    /\ unrecognisedCommands' = unrecognisedCommands + 1
    /\ \E wok \in WriteOutcomes :
         Respond(CommandUnknown(unrecognisedCommands' > maxUnrecognisedCommands), wok)
    /\ itp' = <<>>
    /\ UNCHANGED txVars
    /\ UNCHANGED <<cmd, rdBuffered, dataVars, wire, srvVars, bufLeft, rdin, supVars>>

doHELO ==
    /\ Dispatched("HELO")
    /\ reset
    /\ \E wok \in WriteOutcomes : Respond(HeloResponse, wok)
    /\ itp' = <<>>
    /\ Untouched

doEHLO ==
    /\ Dispatched("EHLO")
    /\ reset
    /\ \E wok \in WriteOutcomes : Respond(EhloResponse, wok)
    /\ itp' = <<>>
    /\ Untouched

\* doMAIL before the ITP is asked: <<>>, or the response it returns at once
MailRefusal ==
    IF inTransaction THEN <<NestedMail>>
    ELSE IF mailFromRE(Params(cmd.buf)) = <<>> THEN <<BadSender>>
    ELSE <<>>

doMAIL ==
    /\ Dispatched("MAIL")
    /\ LET match == mailFromRE(Params(cmd.buf))
       IN \E wok \in WriteOutcomes :
            IF MailRefusal # <<>>
            THEN Respond(MailRefusal[1], wok) /\ itp' = <<>> /\ UNCHANGED txVars
            ELSE \E ret \in ITPReturns :
                   /\ itp' = <<ITPCall("CheckFromAddress", match[1], ret)>>
                   /\ IF Rejects(ret)
                      THEN /\ IF ret.err THEN Abort("itp") ELSE Respond(ret.r[1], wok)
                           /\ UNCHANGED txVars
                      ELSE /\ inTransaction' = TRUE
                           /\ ReversePath' = match[1]
                           /\ UNCHANGED RecipientList
                           /\ Respond(MailOK(match[1]), wok)
    /\ Untouched

RcptRefusalNoMailCheck ==
    IF rcptToRE(Params(cmd.buf)) = <<>> THEN <<BadRcptComponent>>
    ELSE IF CanonicaliseInboundAddress(rcptToRE(Params(cmd.buf))[1]) = <<>> THEN <<BadRcptFormat>>
    ELSE <<>>

\* doRCPT before the ITP is asked: <<>>, or the response it returns at once
RcptRefusal ==
    IF ~inTransaction THEN <<RcptBeforeMail>>
    ELSE IF rcptToRE(Params(cmd.buf)) = <<>> THEN <<BadRcptComponent>>
    ELSE IF CanonicaliseInboundAddress(rcptToRE(Params(cmd.buf))[1]) = <<>> THEN <<BadRcptFormat>>
    ELSE <<>>

doRCPT ==
    /\ Dispatched("RCPT")
    /\ LET match == rcptToRE(Params(cmd.buf))
       IN \E wok \in WriteOutcomes :
            IF RcptRefusal # <<>>
            THEN Respond(RcptRefusal[1], wok) /\ itp' = <<>> /\ UNCHANGED txVars
            ELSE LET rcptAddress == CanonicaliseInboundAddress(match[1])
                 IN \E ret \in ITPReturns :
                           /\ itp' = <<ITPCall("CheckRecipientAddress", rcptAddress, ret)>>
                           /\ IF Rejects(ret)
                              THEN /\ IF ret.err THEN Abort("itp") ELSE Respond(ret.r[1], wok)
                                   /\ UNCHANGED txVars
                              ELSE /\ RecipientList' = Append(RecipientList, rcptAddress)
                                   /\ UNCHANGED <<inTransaction, ReversePath>>
                                   /\ Respond(RcptOK(rcptAddress), wok)
    /\ Untouched

doRSETStepwise ==
    /\ Dispatched("RSET")
    /\ IF RecipientList # <<>>
       THEN RecipientList' = <<>> /\ UNCHANGED <<inTransaction, ReversePath>>
       ELSE reset
    /\ \E wok \in WriteOutcomes : Respond(RsetOK, wok)
    /\ itp' = <<>>
    /\ Untouched

doRSET ==
    /\ Dispatched("RSET")
    /\ reset
    /\ \E wok \in WriteOutcomes : Respond(RsetOK, wok)
    /\ itp' = <<>>
    /\ Untouched

doVRFY ==
    /\ Dispatched("VRFY")
    /\ \E wok \in WriteOutcomes : Respond(NotImplemented, wok)
    /\ itp' = <<>>
    /\ UNCHANGED txVars
    /\ Untouched

doEXPN ==
    /\ Dispatched("EXPN")
    /\ \E wok \in WriteOutcomes : Respond(NotImplemented, wok)
    /\ itp' = <<>>
    /\ UNCHANGED txVars
    /\ Untouched

doHELPResets ==
    /\ Dispatched("HELP")
    /\ \E wok \in WriteOutcomes : Respond(HelpOK, wok)
    /\ itp' = <<>>
    /\ reset
    /\ Untouched

doHELP ==
    /\ Dispatched("HELP")
    /\ \E wok \in WriteOutcomes : Respond(HelpOK, wok)
    /\ itp' = <<>>
    /\ UNCHANGED txVars
    /\ Untouched

doNOOP ==
    /\ Dispatched("NOOP")
    /\ \E wok \in WriteOutcomes : Respond(NoopOK, wok)
    /\ itp' = <<>>
    /\ UNCHANGED txVars
    /\ Untouched

doQUIT ==
    /\ Dispatched("QUIT")
    /\ reset
    /\ \E wok \in WriteOutcomes : Respond(Bye, wok)
    /\ itp' = <<>>
    /\ Untouched

---------------------------------------------------------------------------
(* doDATA: the checks and the 354, then the body loop, one ReadSlice a     *)
(* step, then the size check and ProcessMail.  The deferred reset runs on  *)
(* every return after the 354 was sent.                                    *)

DataRefusalNoRcptCheck ==
    IF ~inTransaction THEN <<DataBeforeMail>>
    ELSE <<>>

\* doDATA before the 354: <<>>, or the response it returns at once
DataRefusal ==
    IF ~inTransaction THEN <<DataBeforeMail>>
    ELSE IF Len(RecipientList) = 0 THEN <<NoRecipients>>
    ELSE <<>>

doDATAResetsOnRefusal ==
    /\ Dispatched("DATA")
    /\ itp' = <<>>
    /\ \E wok \in WriteOutcomes :
         IF DataRefusal # <<>>
         THEN Respond(DataRefusal[1], wok) /\ reset /\ UNCHANGED <<dataVars, wire>>
         ELSE LET s == Send(Ready, wok)
              IN /\ sent' = <<Ready>>
                 /\ out' = s.out
                 /\ wbuf' = s.wbuf
                 /\ needsFlush' = s.needsFlush
                 /\ pc' = IF s.ok THEN "body" ELSE "done"
                 /\ err' = IF s.ok THEN err ELSE "io"
                 /\ body' = <<>>
                 /\ startOfLine' = TRUE
                 /\ oversize' = FALSE
                 /\ wire' = <<>>
                 /\ UNCHANGED txVars
    /\ UNCHANGED <<cmd, unrecognisedCommands, rdBuffered, srvVars, bufLeft, rdin, supVars>>

doDATA ==
    /\ Dispatched("DATA")
    /\ itp' = <<>>
    /\ UNCHANGED txVars
    /\ \E wok \in WriteOutcomes :
         IF DataRefusal # <<>>
         THEN Respond(DataRefusal[1], wok) /\ UNCHANGED <<dataVars, wire>>
         ELSE LET s == Send(Ready, wok)
              IN /\ sent' = <<Ready>>
                 /\ out' = s.out
                 /\ wbuf' = s.wbuf
                 /\ needsFlush' = s.needsFlush
                 /\ pc' = IF s.ok THEN "body" ELSE "done"
                 /\ err' = IF s.ok THEN err ELSE "io"
                 /\ body' = <<>>
                 /\ startOfLine' = TRUE
                 /\ oversize' = FALSE
                 /\ wire' = <<>>
    /\ UNCHANGED <<cmd, unrecognisedCommands, rdBuffered, srvVars, bufLeft, rdin, supVars>>

\* lineStartsWithDot := buf[0] == '.' && startOfLine
lineStartsWithDotAnywhere(buf) == buf[1] = "."

lineStartsWithDot(buf) == buf[1] = "." /\ startOfLine

\* buf after "if lineStartsWithDot { buf = buf[1:] }"
Stripped(buf) == IF lineStartsWithDot(buf) THEN Tail(buf) ELSE buf

\* an early check that looks at the stored body alone
OversizeOfStoredBody(buf) ==
    oversize \/ Len(body) > MaxMessageSize + SoftMargin

\* oversize after the early check of this line
OversizeNow(buf) ==
    oversize \/ Len(Stripped(buf)) + Len(body) > MaxMessageSize + SoftMargin

\* body after the early check of this line (body.Reset() when it first fails)
BodyChecked(buf) == IF ~oversize /\ OversizeNow(buf) THEN <<>> ELSE body

\* body after "if !oversize { body.Write(buf) }"
BodyWritten(buf) ==
    IF OversizeNow(buf) THEN BodyChecked(buf) ELSE BodyChecked(buf) \o Stripped(buf)

StartOfLineAfterAnyLine(buf) == TRUE

\* startOfLine after a piece that does not end the body: false after one
\* that does not end in CRLF, true after one that does
StartOfLineAfter(buf) == HasSuffix(Stripped(buf), crlf)

terminatorLFOnly(buf) ==
    /\ startOfLine
    /\ lineStartsWithDot(buf)
    /\ Len(Stripped(buf)) <= Len(crlf)

\* the line ends the body: it ends in CRLF and the terminator test holds
terminator(buf) ==
    /\ HasSuffix(Stripped(buf), crlf)
    /\ startOfLine
    /\ lineStartsWithDot(buf)
    /\ Len(Stripped(buf)) = Len(crlf)
    /\ (HasSuffix(BodyChecked(buf), crlf) \/ Len(BodyChecked(buf)) = 0)

\* the reject of the size check at the end of the data
RejectsSizeSoftOnly(buf) == OversizeNow(buf)

RejectsSize(buf) == OversizeNow(buf) \/ Len(BodyChecked(buf)) > MaxMessageSize

\* doDATA returns: the deferred reset runs and its locals are gone
DataReturns ==
    /\ reset
    /\ body' = <<>>
    /\ startOfLine' = TRUE
    /\ oversize' = FALSE

\* ReadSlice returns a line that does not end the body.  (Only Receive looks at
\* the reader's buffer: the step that ends the body says what stays in it.)
DataLine(lines, cap) ==
    /\ pc = "body"
    /\ LineAvailable
    /\ \E buf \in lines :
         /\ LineTaken(TRUE)
         /\ Len(wire) + Len(buf) <= cap
         /\ ~terminator(buf)
         /\ wire' = wire \o buf
         /\ oversize' = OversizeNow(buf)
         /\ body' = BodyWritten(buf)
         /\ startOfLine' = StartOfLineAfter(buf)
    /\ sent' = <<>>
    /\ out' = <<>>
    /\ itp' = <<>>
    /\ UNCHANGED <<pc, err, cmd, txVars, unrecognisedCommands, needsFlush, wbuf, rdBuffered>>
    /\ UNCHANGED <<srvVars, rdin, supVars>>

\* ReadSlice returns the terminator of a body that fails the size check
DataTooBig(lines, cap) ==
    /\ pc = "body"
    /\ LineAvailable
    /\ \E buf \in lines, more \in BOOLEAN, wok \in WriteOutcomes :
         /\ LineTaken(more)
         /\ Len(wire) + Len(buf) <= cap
         /\ terminator(buf)
         /\ RejectsSize(buf)
         /\ wire' = wire \o buf
         /\ rdBuffered' = more
         /\ Respond(TooBig, wok)
    /\ itp' = <<>>
    /\ DataReturns
    /\ UNCHANGED <<cmd, unrecognisedCommands, srvVars, rdin, supVars>>

MailReplyErrorsOnly(ret) ==
    IF ret.r # <<>> /\ IsError(ret.r[1]) THEN ret.r[1] ELSE Queued

\* what doDATA returns after ProcessMail returned no error: the response of
\* ProcessMail, or without one the default reply
MailReply(ret) == IF ret.r # <<>> THEN ret.r[1] ELSE Queued

\* ReadSlice returns the terminator of a body that passes the size check:
\* ProcessMail, whose response, if any, is the reply
DataDeliver(lines, cap) ==
    /\ pc = "body"
    /\ LineAvailable
    /\ \E buf \in lines, more \in BOOLEAN, wok \in WriteOutcomes, ret \in ITPReturns :
         /\ LineTaken(more)
         /\ Len(wire) + Len(buf) <= cap
         /\ terminator(buf)
         /\ ~RejectsSize(buf)
         /\ wire' = wire \o buf
         /\ rdBuffered' = more
         /\ itp' = <<ITPCall("ProcessMail", BodyChecked(buf), ret)>>
         /\ IF ret.err THEN Abort("itp") ELSE Respond(MailReply(ret), wok)
    /\ DataReturns
    /\ UNCHANGED <<cmd, unrecognisedCommands, srvVars, rdin, supVars>>

\* ReadSlice fails on the stream (the peer went away, the read timeout passed)
DataReadFails ==
    /\ pc = "body"
    /\ NoLineAvailable
    /\ pc' = "done"
    /\ err' = "io"
    /\ sent' = <<>>
    /\ out' = <<>>
    /\ itp' = <<>>
    /\ DataReturns
    /\ UNCHANGED <<cmd, unrecognisedCommands, needsFlush, wbuf, rdBuffered, wire>>
    /\ UNCHANGED <<srvVars, bufLeft, rdin, supVars>>

\* ReadSlice fills the reader's buffer without meeting a line feed: it returns
\* bufio.ErrBufferFull, which doDATA returns like any other error
DataBufferFull(fragments, cap) ==
    /\ pc = "body"
    /\ \E frag \in fragments :
         /\ Len(wire) + Len(frag) <= cap
         /\ wire' = wire \o frag
    /\ pc' = "done"
    /\ err' = "bufferfull"
    /\ sent' = <<>>
    /\ out' = <<>>
    /\ itp' = <<>>
    /\ DataReturns
    /\ UNCHANGED <<cmd, unrecognisedCommands, needsFlush, wbuf, rdBuffered>>
    /\ UNCHANGED <<srvVars, bufLeft, rdin, supVars>>

---------------------------------------------------------------------------
(* The specifications.                                                     *)

Handlers ==
    \/ Invalid
    \/ Unknown
    \/ doHELO
    \/ doEHLO
    \/ doMAIL
    \/ doRCPT
    \/ doDATA
    \/ doRSET
    \/ doVRFY
    \/ doEXPN
    \/ doHELP
    \/ doNOOP
    \/ doQUIT

\* a session with a peer that sends few unrecognised commands and short bodies
Next ==
    \/ Greet
    \/ ReceiveFlushFails
    \/ ReceiveReadFails
    \/ ReceiveLine(CommandLines, MaxUnknown)
    \/ Handlers
    \/ DataLine(SessionBodyLines, MaxSessionWire)
    \/ DataTooBig(SessionBodyLines, MaxSessionWire)
    \/ DataDeliver(SessionBodyLines, MaxSessionWire)
    \/ DataReadFails
    \/ DataBufferFull(SessionFragments, MaxSessionWire)

Spec == Init /\ [][Next]_vars

\* the body phase alone, with every body the peer can send: the state after
\* MAIL FROM:<a@b>, RCPT TO:<a@B> and DATA, once the 354 is sent
InitData ==
    /\ pc = "body"
    /\ err = "nil"
    /\ cmd = ICCommand(<<"DATA">>, FALSE)
    /\ inTransaction = TRUE
    /\ ReversePath = A_AT_B
    /\ RecipientList = <<A_AT_B>>
    /\ unrecognisedCommands = 0
    /\ needsFlush = FALSE
    /\ wbuf = <<>>
    /\ rdBuffered = FALSE
    /\ body = <<>>
    /\ startOfLine = TRUE
    /\ oversize = FALSE
    /\ wire = <<>>
    /\ sent = <<Ready>>
    /\ out = <<Ready>>
    /\ itp = <<>>
    /\ serve = "waiting"
    /\ closed = FALSE
    /\ bufLeft = 0
    /\ rdin = <<>>
    /\ SupervisorStarts

NextData ==
    \/ DataLine(AllBodyLines, MaxWire)
    \/ DataTooBig(AllBodyLines, MaxWire)
    \/ DataDeliver(AllBodyLines, MaxWire)
    \/ DataReadFails
    \/ DataBufferFull(AllFragments, MaxWire)

SpecData == InitData /\ [][NextData]_vars

\* the body phase with a body that grows past the soft threshold and goes on
\* after it: few kinds of lines, and more of them
BigLines == { <<"x", "x", "CR", "LF">>, <<"x", "LF">>, <<".", "CR", "LF">> }

BigFragments == { <<"x", "x", "x", "x">> }

NextBig ==
    \/ DataLine(BigLines, MaxBigWire)
    \/ DataTooBig(BigLines, MaxBigWire)
    \/ DataDeliver(BigLines, MaxBigWire)
    \/ DataReadFails
    \/ DataBufferFull(BigFragments, MaxBigWire)

SpecBig == InitData /\ [][NextBig]_vars

\* a session with a peer that floods it with unrecognised commands
NextFlood ==
    \/ Greet
    \/ ReceiveFlushFails
    \/ ReceiveReadFails
    \/ ReceiveLine(FloodLines, maxUnrecognisedCommands + 1)
    \/ Unknown
    \/ doHELO
    \/ doMAIL
    \/ doRSET
    \/ doNOOP
    \/ doQUIT

SpecFlood == Init /\ [][NextFlood]_vars

---------------------------------------------------------------------------
(* A peer that pipelines: it sends MAIL, RCPT, RCPT, DATA and the body     *)
(* without waiting for the replies.                                        *)

E_AT_F == <<"e", "@", "f">>

PipeLines ==
    { <<"MAIL", " ", "FROM", ":", "<", "a", "@", "b", ">">>,
      <<"RCPT", " ", "TO", ":", "<", "c", "@", "d", ">">>,
      <<"RCPT", " ", "TO", ":", "<", "e", "@", "f", ">">>,
      <<"DATA">>, <<"NOOP">>, <<"quit">> }

PipeBodyLines == { <<".", "CR", "LF">>, <<"x", "CR", "LF">> }

NextPipe ==
    \/ Greet
    \/ ReceiveFlushFails
    \/ ReceiveReadFails
    \/ ReceiveLineWithin(PipeLines, 0, PipeRcpt, PipeDepth)
    \/ doMAIL
    \/ doRCPT
    \/ doDATA
    \/ doNOOP
    \/ doQUIT
    \/ DataLine(PipeBodyLines, MaxSessionWire)
    \/ DataDeliver(PipeBodyLines, MaxSessionWire)
    \/ DataReadFails

SpecPipe == Init /\ [][NextPipe]_vars

---------------------------------------------------------------------------
(* MAIL and RCPT alone, with every short address the peer can send: the    *)
(* states in which Process is about to handle such a command, outside a    *)
(* transaction or inside one with no or one recipient.                     *)

AddrChars == {"a", "B", "@", ":"}

AddrLines ==
    { <<"RCPT", " ", "TO", ":", "<">> \o a \o <<">">> : a \in SeqsUpTo(AddrChars, MaxAddr) }
    \cup { <<"MAIL", " ", "FROM", ":", "<">> \o a \o <<">">> : a \in SeqsUpTo(AddrChars, 3) }

InitAddr ==
    /\ pc = "proc"
    /\ err = "nil"
    /\ cmd \in { ICCommand(l, FALSE) : l \in AddrLines }
    /\ inTransaction \in BOOLEAN
    /\ ReversePath = IF inTransaction THEN A_AT_B ELSE <<>>
    /\ RecipientList \in IF inTransaction THEN {<<>>, <<C_AT_D>>} ELSE {<<>>}
    /\ unrecognisedCommands = 0
    /\ needsFlush = FALSE
    /\ wbuf = <<>>
    /\ rdBuffered = FALSE
    /\ body = <<>>
    /\ startOfLine = TRUE
    /\ oversize = FALSE
    /\ wire = <<>>
    /\ sent = <<>>
    /\ out = <<>>
    /\ itp = <<>>
    /\ serve = "waiting"
    /\ closed = FALSE
    /\ bufLeft = 0
    /\ rdin = <<>>
    /\ SupervisorStarts

NextAddr ==
    \/ doMAIL
    \/ doRCPT

SpecAddr == InitAddr /\ [][NextAddr]_vars

---------------------------------------------------------------------------
(* A peer whose DATA comes too early, outside a transaction or before any  *)
(* recipient, and who goes on with RCPT and DATA, never with MAIL: the     *)
(* states in which Process is about to handle that first DATA.             *)

RetryLines ==
    { <<"RCPT", " ", "TO", ":", "<", "c", "@", "d", ">">>,
      <<"RCPT", " ", "TO", ":", "<", "e", "@", "f", ">">>,
      <<"DATA">> }

InitRetry ==
    /\ pc = "proc"
    /\ err = "nil"
    /\ cmd = ICCommand(<<"DATA">>, FALSE)
    /\ inTransaction \in BOOLEAN
    /\ ReversePath = IF inTransaction THEN A_AT_B ELSE <<>>
    /\ RecipientList = <<>>
    /\ unrecognisedCommands = 0
    /\ needsFlush \in {inTransaction, FALSE}
    /\ wbuf = IF needsFlush THEN <<MailOK(A_AT_B)>> ELSE <<>>
    /\ rdBuffered = FALSE
    /\ body = <<>>
    /\ startOfLine = TRUE
    /\ oversize = FALSE
    /\ wire = <<>>
    /\ sent = <<>>
    /\ out = <<>>
    /\ itp = <<>>
    /\ serve = "waiting"
    /\ closed = FALSE
    /\ bufLeft = 0
    /\ rdin = <<>>
    /\ SupervisorStarts

NextRetry ==
    \/ ReceiveFlushFails
    \/ ReceiveReadFails
    \/ ReceiveLineWithin(RetryLines, 0, PipeRcpt, PipeDepth)
    \/ doRCPT
    \/ doDATA
    \/ DataLine(PipeBodyLines, MaxSessionWire)
    \/ DataDeliver(PipeBodyLines, MaxSessionWire)
    \/ DataReadFails

SpecRetry == InitRetry /\ [][NextRetry]_vars

---------------------------------------------------------------------------
(* Receive followed byte by byte: c.rd's buffer and bufio's ReadLine.  A   *)
(* command line counts one byte for each of its elements.                  *)

HasLF(s) == Count(s, "LF") > 0

\* bufio.Reader.ReadLine on the bytes s (the buffer, then what the stream
\* delivers), which hold a line feed or fill the buffer: the line without its
\* line end, or, when the buffer fills first, what filled it (a CR at its end
\* is put back) with isPrefix set; rest is what stays unread
ReadLine(s) ==
    LET i == IndexOf(s, "LF")
    IN IF i # 0 /\ i <= RdBufSize
       THEN [line |-> SubSeq(s, 1, IF i > 1 /\ s[i - 1] = "CR" THEN i - 2 ELSE i - 1),
             isPrefix |-> FALSE,
             rest |-> SubSeq(s, i + 1, Len(s))]
       ELSE LET k == IF s[RdBufSize] = "CR" THEN RdBufSize - 1 ELSE RdBufSize
            IN [line |-> SubSeq(s, 1, k), isPrefix |-> TRUE, rest |-> SubSeq(s, k + 1, Len(s))]

\* Receive's loop "swallow the rest": what stays unread after it
RECURSIVE Swallow(_)
Swallow(s) ==
    LET r == ReadLine(s)
    IN IF r.isPrefix THEN Swallow(r.rest) ELSE r.rest

ReceiveOfNoSwallow(s) ==
    LET r == ReadLine(s)
    IN [buf |-> IF r.isPrefix THEN <<>> ELSE r.line, invalid |-> r.isPrefix, rest |-> r.rest]

\* Receive's reads on s: the command and what stays unread
ReceiveOf(s) ==
    LET r == ReadLine(s)
    IN IF r.isPrefix
       THEN [buf |-> <<>>, invalid |-> TRUE, rest |-> Swallow(r.rest)]
       ELSE [buf |-> r.line, invalid |-> FALSE, rest |-> r.rest]

\* the command lines of a peer of SpecBytes, as it types them: two of them
\* fit the reader's buffer with their line end, the others do not
ByteLines ==
    { <<"NOOP">>, <<"RSET">>, <<"quit">>, <<"WOMBAT">>,
      <<"NOOP", " ", "x">>, <<"NOOP", " ", "x", "x">>, <<"RSET", " ", "x", "x", "x">> }

\* what the peer sends: one or two lines with their line ends
PeerStreams ==
    LET ended == { l \o e : l \in ByteLines, e \in LineEnds }
    IN { a \o b : a \in ended, b \in ended \cup {<<>>} }

\* Receive: the deferred flush, then ReadLine on the buffer and on as much of
\* the peer's bytes as the reader takes in; the stream delivers at least the
\* end of the line
ReceiveBytes(streams, limit, depth) ==
    /\ pc = "recv"
    /\ ~closed
    /\ \E t \in streams : \E n \in 1..Len(t) :
         LET s == SubSeq(t, 1, n)
             r == ReceiveOf(s)
         IN /\ n >= Len(rdin)
            /\ SubSeq(t, 1, Len(rdin)) = rdin
            /\ HasLF(s)
            /\ HasLF(rdin) => n = Len(rdin)
            /\ Len(r.rest) < RdBufSize
            /\ IsUnknown(r.buf) /\ ~r.invalid => unrecognisedCommands < limit
            /\ r.rest # <<>> => Len(IF ReceiveFlushes THEN <<>> ELSE wbuf) < depth
            /\ cmd' = ICCommand(r.buf, r.invalid)
            /\ rdin' = r.rest
            /\ rdBuffered' = (r.rest # <<>>)
            /\ wire' = SubSeq(s, 1, Len(s) - Len(r.rest))
    /\ needsFlush' = (needsFlush /\ ~ReceiveFlushes)
    /\ wbuf' = IF ReceiveFlushes THEN <<>> ELSE wbuf
    /\ out' = IF ReceiveFlushes THEN wbuf ELSE <<>>
    /\ pc' = "proc"
    /\ sent' = <<>>
    /\ itp' = <<>>
    /\ UNCHANGED <<err, txVars, unrecognisedCommands, dataVars, srvVars, bufLeft, supVars>>

\* Receive when the read of the stream fails (the peer went away, the idle
\* timeout passed) while the buffer holds bytes without a line feed: no
\* flush, and ReadLine returns those bytes as a line
ReceivePartial(limit) ==
    /\ pc = "recv"
    /\ ~closed
    /\ rdin # <<>>
    /\ ~HasLF(rdin)
    /\ IsUnknown(rdin) => unrecognisedCommands < limit
    /\ cmd' = ICCommand(rdin, FALSE)
    /\ rdin' = <<>>
    /\ rdBuffered' = FALSE
    /\ wire' = rdin
    /\ pc' = "proc"
    /\ sent' = <<>>
    /\ out' = <<>>
    /\ itp' = <<>>
    /\ UNCHANGED <<err, txVars, unrecognisedCommands, needsFlush, wbuf, dataVars, srvVars, bufLeft, supVars>>

\* the loop is about to read a command, after a NOOP was answered, outside a
\* transaction or inside one
InitBytes ==
    /\ pc = "recv"
    /\ err = "nil"
    /\ cmd = ICCommand(<<"NOOP">>, FALSE)
    /\ inTransaction \in BOOLEAN
    /\ ReversePath = IF inTransaction THEN A_AT_B ELSE <<>>
    /\ RecipientList \in IF inTransaction THEN {<<>>, <<C_AT_D>>} ELSE {<<>>}
    /\ unrecognisedCommands = 0
    /\ needsFlush = FALSE
    /\ wbuf = <<>>
    /\ rdBuffered = FALSE
    /\ body = <<>>
    /\ startOfLine = TRUE
    /\ oversize = FALSE
    /\ wire = <<>>
    /\ sent = <<NoopOK>>
    /\ out = <<NoopOK>>
    /\ itp = <<>>
    /\ serve = "waiting"
    /\ closed = FALSE
    /\ bufLeft = 0
    /\ rdin = <<>>
    /\ SupervisorStarts

NextBytes ==
    \/ ReceiveFlushFails
    \/ ReceiveReadFails
    \/ ReceiveBytes(PeerStreams, MaxUnknown, MaxPipeline)
    \/ ReceivePartial(MaxUnknown)
    \/ Invalid
    \/ Unknown
    \/ doRSET
    \/ doNOOP
    \/ doQUIT

SpecBytes == InitBytes /\ [][NextBytes]_vars

---------------------------------------------------------------------------
(* Serve: it starts serveLoop and waits for it to finish or for the        *)
(* context to be cancelled; its deferred function closes the stream.  On   *)
(* cancellation Serve returns while serveLoop is still running: what the   *)
(* reader has buffered is all that serveLoop can still read.               *)

\* Serve returns
Returns(how) ==
    /\ serve = "waiting"
    /\ serve' = how
    /\ sent' = <<>>
    /\ out' = <<>>
    /\ itp' = <<>>
    /\ UNCHANGED <<pc, err, cmd, txVars, unrecognisedCommands, needsFlush, wbuf,
                   rdBuffered, dataVars, wire, rdin, supVars>>

CancelLeavesOpen ==
    /\ Returns("cancelled")
    /\ UNCHANGED <<closed, bufLeft>>

\* <-ctx.Done(): Serve returns and its deferred function closes the stream
Cancel ==
    /\ Returns("cancelled")
    /\ closed' = TRUE
    /\ \E k \in 0..MaxBuffered :
         /\ pc \in {"greet", "done"} => k = 0
         /\ (pc \in {"recv", "proc"} /\ k > 0) => rdBuffered
         /\ bufLeft' = k

\* <-done: serveLoop has returned; Serve returns and closes the stream
ServeDone ==
    /\ pc = "done"
    /\ Returns("finished")
    /\ closed' = TRUE
    /\ bufLeft' = 0

\* the steps of serveLoop in a session under Serve
LoopServe ==
    \/ Greet
    \/ ReceiveFlushFails
    \/ ReceiveReadFails
    \/ ReceiveLine(CommandLines, MaxUnknown)
    \/ Handlers
    \/ DataLine(SessionBodyLines, MaxSessionWire)
    \/ DataTooBig(SessionBodyLines, MaxSessionWire)
    \/ DataDeliver(SessionBodyLines, MaxSessionWire)
    \/ DataReadFails
    \/ DataBufferFull(SessionFragments, MaxSessionWire)

NextServe ==
    \/ LoopServe
    \/ Cancel
    \/ ServeDone

SpecServe == Init /\ [][NextServe]_vars

---------------------------------------------------------------------------
(* The supervisor: ParseConfig, RunConfig and the goroutines it starts.    *)
(* RunConfig loads the configuration and starts one goroutine a server;    *)
(* on SIGHUP it cancels the listeners' context, waits on wg and loads      *)
(* again; on a signal to stop, on control.quit and when the configuration  *)
(* does not parse it returns, and its deferred function cancels the root   *)
(* context, waits on sessionWaitGroup and calls control.wg.Done().         *)

\* what a server entry of the YAML file may give for protocol and address
\* ("": the key is absent)
ServerConfig ==
    [Protocol : {"", "tcp", "unix"},
     Address : {"", "127.0.0.1:25", "/var/run/goms.sock"}]

\* a configuration file: one that cannot be read or unmarshalled, or the
\* server entries yaml.Unmarshal puts in c.Servers
ConfigFilesOf(entries) ==
    {[ok |-> FALSE, Servers |-> <<>>]} \cup
    { [ok |-> TRUE, Servers |-> ss] :
        ss \in UNION { [1..n -> entries] : n \in 0..MaxServers } }

\* every file, for ParseConfig by itself
AllConfigFiles == ConfigFilesOf(ServerConfig)

\* the files of a supervisor that is followed through its listeners and
\* sessions: what matters there is how many servers a file has
FewConfigFiles == ConfigFilesOf({[Protocol |-> "tcp", Address |-> "127.0.0.1:25"]})

\* the body of ParseConfig's loop for one entry; the default address is
\* fmt.Sprintf("0.0.0.0:%d", GOMS_DEFAULT_PORT)
Defaulted(s) ==
    LET p == IF s.Protocol = "" THEN [s EXCEPT !.Protocol = "tcp"] ELSE s
    IN IF p.Protocol = "tcp" /\ p.Address = ""
       THEN [p EXCEPT !.Protocol = "0.0.0.0:" \o ToString(GOMS_DEFAULT_PORT)]
       ELSE p

\* ParseConfig: (c, err), c given by its Servers
ParseConfig(file) ==
    IF ~file.ok
    THEN [Servers |-> <<>>, err |-> TRUE]
    ELSE [Servers |-> [i \in 1..Len(file.Servers) |-> Defaulted(file.Servers[i])],
          err |-> FALSE]

\* the context a listener of the n-th configuration runs in is cancelled:
\* its configCtx was cancelled, or the root context it derives from
ListenerCancelled(n) == rootCancelled \/ n \in configCancelled

\* the listeners after a goroutine of the n-th configuration has moved from
\* one place to the next, and after it has returned
Moved(n, from, to) ==
    [listeners EXCEPT ![n] = [@ EXCEPT ![from] = @ - 1, ![to] = @ + 1]]

Returned(n, from) == [listeners EXCEPT ![n] = [@ EXCEPT ![from] = @ - 1]]

\* the top of RunConfig's loop: ParseConfig; if it fails RunConfig returns and
\* its deferred function starts (cancelFunc()); if not, a goroutine is
\* started for every server and RunConfig waits in its select
RunConfigLoads(files) ==
    /\ run = "load"
    /\ \E file \in files :
         LET p == ParseConfig(file)
         IN /\ confRead' = file.Servers
            /\ servers' = p.Servers
            /\ IF p.err
               THEN /\ run' = "shutdown"
                    /\ reason' = "parse"
                    /\ rootCancelled' = TRUE
                    /\ UNCHANGED <<loads, listeners>>
               ELSE /\ run' = "select"
                    /\ loads' = loads + 1
                    /\ listeners' = [listeners EXCEPT ![loads + 1].go = Len(p.Servers)]
                    /\ UNCHANGED <<reason, rootCancelled>>
    /\ UNCHANGED <<configCancelled, wg, sessionWaitGroup, sessions, connVars>>

\* case <-hup: configCancelFunc(), then wg.Wait()
RunConfigHup ==
    /\ run = "select"
    /\ loads < MaxLoads
    /\ configCancelled' = configCancelled \cup {loads}
    /\ run' = "wait"
    /\ UNCHANGED <<loads, confRead, servers, rootCancelled, wg, listeners,
                   sessionWaitGroup, sessions, reason, connVars>>

\* wg.Wait() returns: the counter of this configuration's wg is zero
RunConfigWaited ==
    /\ run = "wait"
    /\ wg[loads] = 0
    /\ run' = "load"
    /\ UNCHANGED <<loads, confRead, servers, configCancelled, rootCancelled, wg,
                   listeners, sessionWaitGroup, sessions, reason, connVars>>

\* the signals and the channel that make RunConfig return
StopRequests == {"intr", "term", "quit"}

\* case <-intr, <-term, <-control.quit: RunConfig returns; its deferred
\* function cancels the root context and waits on sessionWaitGroup.  (The arm
\* <-ctx.Done() is never taken: only the deferred function cancels ctx.)
RunConfigReturns ==
    /\ run = "select"
    /\ \E r \in StopRequests : reason' = r
    /\ rootCancelled' = TRUE
    /\ run' = "shutdown"
    /\ UNCHANGED <<loads, confRead, servers, configCancelled, wg, listeners,
                   sessionWaitGroup, sessions, connVars>>

DrainedAtOnce == TRUE

\* sessionWaitGroup.Wait() returns
Drained == sessionWaitGroup = 0

\* the deferred function after sessionWaitGroup.Wait(): control.wg.Done()
RunConfigDone ==
    /\ run = "shutdown"
    /\ Drained
    /\ run' = "exited"
    /\ UNCHANGED <<loads, confRead, servers, configCancelled, rootCancelled, wg,
                   listeners, sessionWaitGroup, sessions, reason, connVars>>

\* the goroutine of a server starts to run: wg.Add(1)
GoAdd ==
    /\ \E n \in 1..MaxLoads :
         /\ listeners[n].go > 0
         /\ wg' = [wg EXCEPT ![n] = @ + 1]
         /\ listeners' = Moved(n, "go", "added")
    /\ UNCHANGED <<run, loads, confRead, servers, configCancelled, rootCancelled,
                   sessionWaitGroup, sessions, reason, connVars>>

\* StartServer: NewListener, and Listen if it gave a listener; if not
\* StartServer returns and the goroutine calls wg.Done()
StartServer ==
    /\ \E n \in 1..MaxLoads, ok \in BOOLEAN :
         /\ listeners[n].added > 0
         /\ IF ok
            THEN listeners' = Moved(n, "added", "listening") /\ wg' = wg
            ELSE listeners' = Returned(n, "added") /\ wg' = [wg EXCEPT ![n] = @ - 1]
    /\ UNCHANGED <<run, loads, confRead, servers, configCancelled, rootCancelled,
                   sessionWaitGroup, sessions, reason, connVars>>

\* Listen returns once its context is cancelled; StartServer returns and the
\* goroutine calls wg.Done()
ListenReturns ==
    /\ \E n \in 1..MaxLoads :
         /\ listeners[n].listening > 0
         /\ ListenerCancelled(n)
         /\ listeners' = Returned(n, "listening")
         /\ wg' = [wg EXCEPT ![n] = @ - 1]
    /\ UNCHANGED <<run, loads, confRead, servers, configCancelled, rootCancelled,
                   sessionWaitGroup, sessions, reason, connVars>>

\* a listener whose context is not cancelled accepts a connection:
\* sessionWaitGroup.Add(1), and a session is started under the session context
Accept ==
    /\ sessionWaitGroup + sessions.finished + sessions.cancelled < MaxSessions
    /\ \E n \in 1..MaxLoads : listeners[n].listening > 0 /\ ~ListenerCancelled(n)
    /\ sessionWaitGroup' = sessionWaitGroup + 1
    /\ UNCHANGED <<run, loads, confRead, servers, configCancelled, rootCancelled, wg,
                   listeners, sessions, reason, connVars>>

\* Serve of a session returns on <-done ("finished") or, its context
\* cancelled, on <-ctx.Done() ("cancelled"); sessionWaitGroup.Done() follows
ServeReturns(how) ==
    /\ sessionWaitGroup > 0
    /\ how = "cancelled" => rootCancelled
    /\ sessions' = [sessions EXCEPT ![how] = @ + 1]
    /\ sessionWaitGroup' = sessionWaitGroup - 1
    /\ UNCHANGED <<run, loads, confRead, servers, configCancelled, rootCancelled, wg,
                   listeners, reason, connVars>>

NextSup ==
    \/ RunConfigLoads(FewConfigFiles)
    \/ RunConfigHup
    \/ RunConfigWaited
    \/ RunConfigReturns
    \/ RunConfigDone
    \/ GoAdd
    \/ StartServer
    \/ ListenReturns
    \/ Accept
    \/ ServeReturns("finished")
    \/ ServeReturns("cancelled")

SpecSup == Init /\ [][NextSup]_vars

\* RunConfig with every configuration file, up to the start of the goroutines
NextConfig ==
    \/ RunConfigLoads(AllConfigFiles)
    \/ RunConfigHup
    \/ RunConfigWaited

SpecConfig == Init /\ [][NextConfig]_vars

---------------------------------------------------------------------------
(* The wire format of a body, stated on bytes (RFC 5321, 4.5.2), for the   *)
(* properties below.  A byte is at the start of a line when it is the      *)
(* first byte or follows CR LF.                                            *)

Bytes == {".", "x", "CR", "LF"}

\* what the peer puts on the wire for the bytes b: every "." at the start of a
\* line is doubled (prev: the byte before b, sol: b starts at the start of a line)
RECURSIVE StuffFrom(_, _, _)
StuffFrom(b, prev, sol) ==
    IF b = <<>> THEN <<>>
    ELSE (IF sol /\ b[1] = "." THEN <<".", ".">> ELSE <<b[1]>>)
         \o StuffFrom(Tail(b), b[1], b[1] = "LF" /\ prev = "CR")

Stuff(b) == StuffFrom(b, "", TRUE)

EndOfData == <<".", "CR", "LF">>

\* the transmission of the body b
Transmitted(b) == Stuff(b) \o EndOfData

\* the bytes a transmission stands for: a "." at the start of a line is dropped
RECURSIVE UnstuffFrom(_, _, _)
UnstuffFrom(w, prev, sol) ==
    IF w = <<>> THEN <<>>
    ELSE IF sol /\ w[1] = "." THEN UnstuffFrom(Tail(w), ".", FALSE)
    ELSE <<w[1]>> \o UnstuffFrom(Tail(w), w[1], w[1] = "LF" /\ prev = "CR")

Unstuff(w) == UnstuffFrom(w, "", TRUE)

\* w cut into lines, each up to and including its line feed (the last piece may
\* have none)
RECURSIVE LinesOf(_)
LinesOf(w) ==
    IF w = <<>> THEN <<>>
    ELSE LET i == IndexOf(w, "LF")
         IN IF i = 0 THEN <<w>>
            ELSE <<SubSeq(w, 1, i)>> \o LinesOf(SubSeq(w, i + 1, Len(w)))

\* line i of ls is ".CRLF" at the start of a line
EndsDataAt(ls, i) ==
    /\ ls[i] = EndOfData
    /\ (i = 1 \/ HasSuffix(ls[i - 1], crlf))

\* the bodies that end in CRLF and fit the size limit
FitBodies == {b \in SeqsUpTo(Bytes, MaxMessageSize) : HasSuffix(b, crlf)}

\* the body loop has met the end of the data: it sent a reply or called ProcessMail
DataEnded == pc # "body" /\ (sent # <<>> \/ itp # <<>>) /\ wire # <<>>

Delivered(b) == itp # <<>> /\ itp[1].hook = "ProcessMail" /\ itp[1].arg = b

---------------------------------------------------------------------------
(* Properties.                                                             *)

\* the reply the step hands to Send has one line with this code and text
Replies(code, text) ==
    /\ Len(sent') = 1
    /\ Len(sent'[1].lines) = 1
    /\ sent'[1].lines[1].code = code
    /\ sent'[1].lines[1].text = text

\* the first line's code is in 400..599
ErrorCoded(r) == Len(r.lines) > 0 /\ r.lines[1].code \in 400..599

\* the step leaves the body loop: a DATA whose 354 was sent returns
DataReturned == pc = "body" /\ pc' # "body"

\* C1: immediately after HELO, EHLO, RSET or QUIT has been handled, and after
\* any DATA for which the 354 was sent has returned (body accepted, body
\* oversize, ITP rejection or error, read error in the body), inTransaction is
\* false, the recipient list is empty and the reverse path is empty.
C1_TransactionIsReset ==
    [][ ( \/ Dispatched("HELO") \/ Dispatched("EHLO")
          \/ Dispatched("RSET") \/ Dispatched("QUIT")
          \/ DataReturned )
        => (~inTransaction' /\ RecipientList' = <<>> /\ ReversePath' = <<>>) ]_vars

\* a body was handed to ProcessMail within a transaction with a recipient, and
\* the transaction is gone
C1_Witness ==
    /\ itp # <<>>
    /\ itp[1].hook = "ProcessMail"
    /\ itp[1].tx.inTransaction
    /\ itp[1].tx.RecipientList # <<>>
    /\ ~inTransaction
    /\ RecipientList = <<>>
    /\ ReversePath = <<>>

\* C2: DATA sends the 354 and reads a body if and only if the session is in a
\* transaction with at least one accepted recipient; without a transaction it
\* replies 503, with a transaction and no recipient 553, and in both cases no
\* body byte is consumed: the next line is read as a command.
C2_DataNeedsRecipients ==
    [][ /\ Dispatched("DATA") =>
            /\ (inTransaction /\ RecipientList # <<>>) =>
                  /\ Replies(354, "354 End data with <CR><LF>.<CR><LF>")
                  /\ err' = err => pc' = "body"
            /\ ~inTransaction =>
                  Replies(503, "5.5.1 Error: missing MAIL command before DATA")
            /\ (inTransaction /\ RecipientList = <<>>) =>
                  Replies(553, "5.5.1 Error: no valid recipients")
            /\ ~(inTransaction /\ RecipientList # <<>>) =>
                  /\ pc' # "body"
                  /\ wire' = wire
                  /\ err' = err => pc' = "recv"
        /\ (pc' = "body" /\ pc # "body") =>
            /\ Dispatched("DATA")
            /\ inTransaction /\ RecipientList # <<>>
        /\ wire' # wire /\ wire' # <<>> => pc = "body"
      ]_vars

\* DATA in a transaction without recipients was answered 553 and the session
\* waits for the next command, the transaction still open
C2_Witness ==
    /\ pc = "recv"
    /\ cmd.buf = <<"DATA">>
    /\ sent # <<>>
    /\ Code(sent[1]) = 553
    /\ inTransaction
    /\ RecipientList = <<>>
    /\ wire = <<>>

\* C3: for any body B that ends in CRLF and fits the size limit, when the peer
\* sends B with every "." at the start of a line doubled and then ".CRLF",
\* ProcessMail is invoked with exactly B: the session does not give up while the
\* transmission arrives, and once it has arrived B is what ProcessMail got.
C3_DotStuffingRoundTrip ==
    \A b \in FitBodies :
        /\ wire = Transmitted(b) => Delivered(b)
        /\ HasPrefix(Transmitted(b), wire) => err # "bufferfull"

\* C4: the body phase ends at, and only at, the first line that is exactly
\* ".CRLF" at the start of a line (the line before it ended in CRLF, or it is
\* the first line): no earlier line of what was read is such a line, and the
\* end of the data was met exactly when the last line read is one.  LF "." LF
\* and a ".CRLF" after a line that ended in a bare LF do not end the body.
C4_TerminatorOnly ==
    LET ls == LinesOf(wire)
    IN /\ \A i \in 1..(Len(ls) - 1) : ~EndsDataAt(ls, i)
       /\ (DataEnded <=> (ls # <<>> /\ EndsDataAt(ls, Len(ls))))
       /\ (pc = "body" => (ls = <<>> \/ ~EndsDataAt(ls, Len(ls))))

\* the body went on after a ".CRLF" that followed a bare LF, and ended at the
\* next ".CRLF"
C4_Witness ==
    /\ DataEnded
    /\ wire = <<"x", "LF", ".", "CR", "LF", ".", "CR", "LF">>

\* what the bytes read up to the end of the data stand for
Decoded == Unstuff(SubSeq(wire, 1, Len(wire) - Len(EndOfData)))

\* C5: at the end of the data, a decoded body longer than MaxMessageSize (even
\* by one byte, below the threshold of the early check) is answered 552 4.3.4
\* and ProcessMail is not invoked; a decoded body of at most MaxMessageSize
\* bytes is passed to ProcessMail.
C5_SizeLimit ==
    DataEnded =>
        IF Len(Decoded) > MaxMessageSize
        THEN /\ itp = <<>>
             /\ Len(sent) = 1
             /\ Len(sent[1].lines) = 1
             /\ sent[1].lines[1].code = 552
             /\ sent[1].lines[1].text = "4.3.4 Error: message too big for system"
        ELSE Delivered(Decoded)

\* a body one byte over the limit, which the early check let pass, was refused
C5_Witness ==
    /\ DataEnded
    /\ wire = <<"x", "LF", "x", "x", "CR", "LF", ".", "CR", "LF">>
    /\ Len(Decoded) = MaxMessageSize + 1
    /\ Len(Decoded) + Len(crlf) <= MaxMessageSize + SoftMargin
    /\ Code(sent[1]) = 552
    /\ itp = <<>>

\* C6: RCPT outside a transaction and MAIL inside a transaction are answered
\* 503 5.5.1, leave inTransaction, ReversePath and RecipientList as they were,
\* and the session goes on.
C6_SequenceErrors ==
    [][ /\ (Dispatched("RCPT") /\ ~inTransaction) =>
            /\ Replies(503, "5.5.1 Error: missing MAIL command before RCPT")
            /\ ~sent'[1].final
            /\ itp' = <<>>
            /\ UNCHANGED txVars
            /\ err' = err => pc' = "recv"
        /\ (Dispatched("MAIL") /\ inTransaction) =>
            /\ Replies(503, "5.5.1 Error: nested MAIL commands")
            /\ ~sent'[1].final
            /\ itp' = <<>>
            /\ UNCHANGED txVars
            /\ err' = err => pc' = "recv"
      ]_vars

\* a MAIL inside a transaction with a recipient was answered 503 and the
\* transaction stands
C6_Witness ==
    /\ pc = "recv"
    /\ Verb(cmd.buf) = "MAIL"
    /\ sent # <<>>
    /\ Code(sent[1]) = 503
    /\ inTransaction
    /\ ReversePath = A_AT_B
    /\ RecipientList # <<>>

\* C7: when the ITP answers MAIL or RCPT without error and with a response
\* whose first code is in 400..599, that response is the reply and the
\* transaction state is unchanged; any other answer without error (nil, or a
\* response with another first code) accepts: the default 250 is the reply and
\* the sender is recorded, or the recipient appended.
C7_ITPVerdict ==
    [][ ( /\ itp' # <<>>
          /\ itp'[1].hook \in {"CheckFromAddress", "CheckRecipientAddress"}
          /\ ~itp'[1].err )
        => IF itp'[1].r # <<>> /\ ErrorCoded(itp'[1].r[1])
           THEN /\ sent' = itp'[1].r
                /\ UNCHANGED txVars
           ELSE IF itp'[1].hook = "CheckFromAddress"
           THEN /\ Replies(250, "2.1.0 OK: mail is from")
                /\ sent'[1].lines[1].addr = itp'[1].arg
                /\ ~inTransaction /\ inTransaction'
                /\ ReversePath' = itp'[1].arg
                /\ UNCHANGED RecipientList
           ELSE /\ Replies(250, "2.1.5 OK: mail recipient")
                /\ sent'[1].lines[1].addr = itp'[1].arg
                /\ RecipientList' = Append(RecipientList, itp'[1].arg)
                /\ UNCHANGED <<inTransaction, ReversePath>>
      ]_vars

\* the ITP refused a recipient with the highest error code: its response was
\* the reply, the recipient list is as it was and the session goes on
C7_Witness ==
    /\ pc = "recv"
    /\ itp # <<>>
    /\ itp[1].hook = "CheckRecipientAddress"
    /\ ~itp[1].err
    /\ itp[1].r # <<>>
    /\ Code(itp[1].r[1]) = 599
    /\ sent = itp[1].r
    /\ inTransaction
    /\ RecipientList = itp[1].tx.RecipientList

\* C8: if an ITP hook returns an error, or a read or a write on the stream fails
\* (a read of a body line after the 354 included), no reply is sent for the
\* command in progress and the session terminates: nothing follows.
C8_ErrorsEndTheSession ==
    [][ /\ (itp' # <<>> /\ itp'[1].err) =>
            /\ err' = "itp"
            /\ pc' = "done"
            /\ sent' = <<>>
            /\ out' = <<>>
        /\ err' # err =>
            /\ err = "nil"
            /\ pc' = "done"
            /\ pc = "recv" => sent' = <<>>
            /\ pc # "recv" => out' = <<>>
        /\ err = "nil"
        /\ pc # "done"
      ]_vars

\* ProcessMail returned a response together with an error: the session ended
\* and nothing was sent
C8_Witness ==
    /\ pc = "done"
    /\ err = "itp"
    /\ itp # <<>>
    /\ itp[1].hook = "ProcessMail"
    /\ itp[1].r # <<>>
    /\ sent = <<>>
    /\ out = <<>>

\* C9: CheckConnection is called exactly once in a session, before anything is
\* written to the peer; the 220 banner is sent only if it accepts; an
\* error-coded response of it is the only reply of the session, which ends
\* without reading a command.
C9_CheckConnectionFirst ==
    [][ /\ (itp' # <<>> /\ itp'[1].hook = "CheckConnection") <=> pc = "greet"
        /\ pc' # "greet"
        /\ pc = "greet" =>
            /\ sent = <<>> /\ out = <<>> /\ wbuf = <<>>
            /\ IF itp'[1].err
               THEN sent' = <<>> /\ wbuf' = <<>> /\ pc' = "done"
               ELSE IF itp'[1].r # <<>> /\ ErrorCoded(itp'[1].r[1])
               THEN sent' = itp'[1].r /\ out' \in {<<>>, sent'} /\ pc' = "done"
               ELSE /\ Replies(220, "localhost ESMTP goms")
                    /\ err' = err => pc' = "recv"
        /\ (sent' # <<>> /\ Code(sent'[1]) = 220) => pc = "greet"
        /\ pc # "done"
      ]_vars

\* the ITP refused the connection: its response went out, alone, and the
\* session is over
C9_Witness ==
    /\ pc = "done"
    /\ err = "nil"
    /\ itp # <<>>
    /\ itp[1].hook = "CheckConnection"
    /\ itp[1].r # <<>>
    /\ Code(itp[1].r[1]) = 599
    /\ sent = itp[1].r
    /\ out = sent
    /\ cmd = NoCommand

\* C10: an unknown verb (the empty line included) is answered 500 5.5.2 and
\* adds one to unrecognisedCommands, which nothing else changes; the reply is
\* final exactly when the count exceeds 20: the 21st unrecognised command of a
\* session closes it and none of the first 20 does.
C10_UnknownCommands ==
    [][ IF pc = "proc" /\ ~cmd.invalid /\ cmd.buf \in {<<>>, <<"WOMBAT">>}
        THEN /\ unrecognisedCommands' = unrecognisedCommands + 1
             /\ Replies(500, "5.5.2 Error: command unknown")
             /\ sent'[1].final <=> unrecognisedCommands' > 20
             /\ unrecognisedCommands' = 21 => pc' = "done"
             /\ (unrecognisedCommands' <= 20 /\ err' = err) => pc' = "recv"
        ELSE unrecognisedCommands' = unrecognisedCommands
      ]_vars

\* the 21st unrecognised command, an empty line, closed the session
C10_Witness ==
    /\ unrecognisedCommands = 21
    /\ cmd.buf = <<>>
    /\ pc = "done"
    /\ err = "nil"
    /\ sent # <<>>
    /\ sent[1].final
    /\ out # <<>>


\* C11: in the command loop, once a reply with final set has been handed to
\* Send (QUIT's 221, the 500 of the command flood, a final reply of the ITP) the
\* session reads and answers no further command and ends; a reply without
\* final does not end the command loop.
C11_FinalEndsTheLoop ==
    [][ /\ (pc \in {"proc", "body"} /\ sent' # <<>>) =>
            /\ sent'[1].final => pc' = "done"
            /\ (~sent'[1].final /\ err' = err) => pc' \in {"recv", "body"}
        /\ pc # "done"
        /\ (pc' = "done" /\ err' = "nil" /\ pc # "greet") =>
            (sent' # <<>> /\ sent'[1].final)
      ]_vars

\* the ITP refused a recipient with a final response: the session is over,
\* without an error
C11_Witness ==
    /\ pc = "done"
    /\ err = "nil"
    /\ itp # <<>>
    /\ itp[1].hook = "CheckRecipientAddress"
    /\ sent = itp[1].r
    /\ sent # <<>>
    /\ sent[1].final


\* C12: Serve closes the stream on every exit path: in every state in which
\* Serve has returned (after QUIT, a final reply, an I/O error, an ITP error, a
\* rejected connection, or cancellation) the stream is closed.
C12_ServeClosesTheStream == serve # "waiting" => closed

\* Serve returned on cancellation while serveLoop was waiting for a command in
\* an open transaction, and the stream is closed
C12_Witness ==
    /\ serve = "cancelled"
    /\ closed
    /\ pc = "recv"
    /\ inTransaction


StepsLeft ==
    3 * (bufLeft + IF rdBuffered THEN 1 ELSE 0)
      + (CASE pc = "done" -> 0
           [] pc \in {"recv", "greet"} -> 1
           [] pc = "body" -> 2
           [] pc = "proc" -> 3)

---------------------------------------------------------------------------
(* C14                                                                     *)

\* the address a command line carries between its angle brackets
Bracketed(buf) ==
    LET i == CHOOSE k \in 1..Len(buf) : buf[k] = "<"
        j == CHOOSE k \in 1..Len(buf) : buf[k] = ">"
    IN SubSeq(buf, i + 1, j - 1)

\* the reply the last step made is the last of what it buffered or wrote
AppendedInOrder ==
    \/ out' = <<>> /\ wbuf' = wbuf \o sent'
    \/ out' = wbuf \o sent' /\ wbuf' = <<>>

\* C14: within a session the replies are written in the order the command
\* lines were received, one reply per command: each step puts at most one reply
\* behind the replies still buffered and writes the buffer out in that order or
\* leaves it buffered; a read adds no reply; a command handled without an ITP
\* error gets exactly one reply, DATA its 354 and, when the body ends, its final
\* reply; a 250 to MAIL or RCPT names the address of the command it answers, so
\* that MAIL + RCPT + RCPT arriving in one batch yields three 250 replies in
\* command order.
C14_RepliesInOrder ==
    [][ /\ Len(sent') <= 1
        /\ AppendedInOrder
        /\ pc = "recv" => sent' = <<>>
        /\ (pc = "proc" /\ err' # "itp") => Len(sent') = 1
        /\ (pc = "body" /\ pc' = "recv") => Len(sent') = 1
        /\ (pc = "body" /\ pc' = "body") => sent' = <<>>
        /\ (pc = "proc" /\ Verb(cmd.buf) = "DATA" /\ pc' = "body") => sent' = <<Ready>>
        /\ (pc = "proc" /\ Verb(cmd.buf) \in {"MAIL", "RCPT"} /\ sent' # <<>> /\ Code(sent'[1]) = 250) =>
              /\ Len(sent'[1].lines) = 1
              /\ sent'[1].lines[1].addr = Bracketed(cmd.buf)
      ]_vars

\* MAIL, RCPT and RCPT arrived in one batch: their three replies are written to
\* the peer together when the last of them is flushed
C14_Witness ==
    /\ out = <<MailOK(A_AT_B), RcptOK(C_AT_D), RcptOK(E_AT_F)>>
    /\ RecipientList = <<C_AT_D, E_AT_F>>


---------------------------------------------------------------------------
(* C15                                                                     *)

\* the step called ProcessMail
MailProcessed == itp' # <<>> /\ itp'[1].hook = "ProcessMail"

\* C15: after a body has been accepted ProcessMail is invoked exactly once (by
\* the step that reads the terminator, which leaves the body loop); if it
\* returns a response and no error, that response, error-coded or not, is the
\* reply to DATA; if it returns neither, the reply is 250 2.0.0 OK: queued (ID
\* unknown); either way the transaction is reset and, unless the write fails or
\* the response is flagged final, the session goes on reading commands.
C15_ProcessMailReply ==
    [][ /\ MailProcessed =>
            /\ pc = "body" /\ pc' # "body"
            /\ Len(itp') = 1
            /\ itp'[1].arg = Decoded'
        /\ (pc = "body" /\ pc' = "recv") =>
            (MailProcessed \/ Replies(552, "4.3.4 Error: message too big for system"))
        /\ (MailProcessed /\ ~itp'[1].err) =>
            /\ itp'[1].r # <<>> => sent' = itp'[1].r
            /\ itp'[1].r = <<>> =>
                 /\ Replies(250, "2.0.0 OK: queued (ID unknown)")
                 /\ ~sent'[1].final
            /\ ~inTransaction' /\ RecipientList' = <<>>
            /\ (err' = err /\ ~sent'[1].final) => pc' = "recv"
      ]_vars

\* ProcessMail answered an accepted body with its own 250: it was sent as it is,
\* the transaction is over and the session reads the next command
C15_Witness ==
    /\ pc = "recv"
    /\ itp # <<>> /\ itp[1].hook = "ProcessMail"
    /\ itp[1].r # <<>> /\ sent = itp[1].r
    /\ Code(sent[1]) = 250
    /\ ~inTransaction


---------------------------------------------------------------------------
(* C16                                                                     *)

\* C16: when the session has terminated through a terminal error path (a
\* failed read or write, an ITP error, the command flood), the transaction has
\* been reset: inTransaction is false and the recipient list is empty.
C16_ErrorExitsReset ==
    (pc = "done" /\ (err # "nil" \/ unrecognisedCommands > maxUnrecognisedCommands)) =>
        (~inTransaction /\ RecipientList = <<>>)


---------------------------------------------------------------------------
(* C17                                                                     *)

\* C17: MAIL FROM:<address> with an address that is not of the form
\* local@domain is answered with an error reply and opens no transaction.
C17_BadSenderRejected ==
    [][ (Dispatched("MAIL") /\ ~inTransaction /\ ~IsLocalAtDomain(Bracketed(cmd.buf))) =>
            /\ Len(sent') = 1
            /\ ErrorCoded(sent'[1])
            /\ ~inTransaction'
      ]_vars


---------------------------------------------------------------------------
(* C18                                                                     *)

\* C18: a DATA refused for lack of recipients (553) does not end the
\* transaction: inTransaction, ReversePath and the (empty) recipient list stay,
\* so that a following RCPT is accepted without a new MAIL and the DATA after
\* it gets its 354; a DATA refused with 503 leaves the session outside a
\* transaction.  (SpecRetry starts with such a DATA and has no MAIL.)
C18_RefusedDataKeepsState ==
    [][ /\ (Dispatched("DATA") /\ inTransaction /\ RecipientList = <<>>) =>
            /\ Replies(553, "5.5.1 Error: no valid recipients")
            /\ inTransaction' /\ ReversePath' = ReversePath /\ RecipientList' = <<>>
            /\ pc' # "body"
            /\ err' = err => pc' = "recv"
        /\ (Dispatched("DATA") /\ ~inTransaction) =>
            /\ Replies(503, "5.5.1 Error: missing MAIL command before DATA")
            /\ ~inTransaction' /\ ReversePath' = ReversePath /\ RecipientList' = <<>>
            /\ pc' # "body"
            /\ err' = err => pc' = "recv"
        /\ (Dispatched("RCPT") /\ inTransaction /\ itp' # <<>> /\ ~itp'[1].err
                /\ (itp'[1].r = <<>> \/ ~ErrorCoded(itp'[1].r[1]))) =>
            /\ Len(sent') = 1 /\ Code(sent'[1]) = 250
            /\ RecipientList' = Append(RecipientList, Bracketed(cmd.buf))
            /\ inTransaction' /\ ReversePath' = ReversePath
        /\ (Dispatched("DATA") /\ inTransaction /\ RecipientList # <<>>) =>
            /\ sent' = <<Ready>>
            /\ err' = err => pc' = "body"
      ]_vars

\* after the DATA refused with 553 and a RCPT, without any MAIL, the next DATA
\* got its 354 and the body is awaited
C18_Witness ==
    /\ pc = "body"
    /\ sent = <<Ready>>
    /\ inTransaction
    /\ ReversePath = A_AT_B
    /\ RecipientList = <<C_AT_D>>
    /\ wire = <<>>


---------------------------------------------------------------------------
(* C19                                                                     *)

\* the argument of the command starts with the keyword and its colon
HasKeyword(words) ==
    LET p == Params(cmd.buf)
    IN Len(p) >= 2 /\ p[1] \in words /\ p[2] = ":"

\* the command was answered 550 with this text, nothing of the transaction
\* changed, the ITP was not asked and the session goes on
Refused550(text) ==
    /\ Replies(550, text)
    /\ ~sent'[1].final
    /\ itp' = <<>>
    /\ UNCHANGED txVars
    /\ err' = err => pc' = "recv"

\* C19: a MAIL or RCPT whose argument lacks the FROM: / TO: keyword with its
\* colon is answered 550 (5.1.7 for MAIL, 5.1.3 for RCPT), changes no
\* transaction state, and the session goes on.
C19_NoKeyword550 ==
    [][ /\ (Dispatched("MAIL") /\ ~HasKeyword({"FROM", "from"})) =>
            Refused550("5.1.7 Error: bad envelope sender address format")
        /\ (Dispatched("RCPT") /\ ~HasKeyword({"TO", "to"})) =>
            Refused550("5.1.3 Error: bad envelope recepient address component")
      ]_vars

\* C19, amended: a MAIL outside a transaction, or a RCPT inside one, whose
\* argument lacks the FROM: / TO: keyword with its colon is answered 550 (5.1.7
\* for MAIL, 5.1.3 for RCPT), changes no transaction state, and the session
\* goes on.
C19_NoKeyword550InSequence ==
    [][ /\ (Dispatched("MAIL") /\ ~inTransaction /\ ~HasKeyword({"FROM", "from"})) =>
            Refused550("5.1.7 Error: bad envelope sender address format")
        /\ (Dispatched("RCPT") /\ inTransaction /\ ~HasKeyword({"TO", "to"})) =>
            Refused550("5.1.3 Error: bad envelope recepient address component")
      ]_vars

\* RCPT TO <a@a>, without the colon, was answered 550 in a transaction, which
\* stands
C19_Witness ==
    /\ pc = "recv"
    /\ cmd.buf = <<"RCPT", " ", "TO", " ", "<", "a", "@", "a", ">">>
    /\ sent # <<>> /\ Code(sent[1]) = 550
    /\ inTransaction
    /\ ReversePath = A_AT_B


---------------------------------------------------------------------------
(* C20                                                                     *)

\* the ways to read addr as (prefix:)?local@domain: <<i, j>> with the colon of
\* the prefix at i (0 without prefix) and the "@" at j
Readings(addr) ==
    { f \in (0..Len(addr)) \X (1..Len(addr)) :
        /\ addr[f[2]] = "@"
        /\ f[2] > f[1] + 1
        /\ f[2] < Len(addr)
        /\ \A k \in (f[1] + 1)..Len(addr) : k # f[2] => addr[k] \notin {"@", ":"}
        /\ f[1] > 0 =>
              /\ f[1] > 1
              /\ addr[f[1]] = ":"
              /\ \A k \in 1..(f[1] - 1) : addr[k] # ":" }

\* the canonical form under a reading: local part as it is, domain in lower case
Canonical(addr, f) ==
    SubSeq(addr, f[1] + 1, f[2]) \o
    [k \in 1..(Len(addr) - f[2]) |-> IF addr[f[2] + k] = "B" THEN "b" ELSE addr[f[2] + k]]

\* C20: RCPT TO:<addr> in a transaction: when addr reads as
\* (prefix:)?local@domain, the ITP is asked about its canonical form (prefix
\* removed, local part unchanged, domain in lower case) and, when the RCPT is
\* accepted, that form is appended at the end of the recipient list; when addr
\* does not read so, the reply is 550 5.1.3, the ITP is not asked and the
\* recipient list is unchanged.
C20_RcptCanonical ==
    [][ (/\ Dispatched("RCPT")
         /\ inTransaction
         /\ cmd.buf = <<"RCPT", " ", "TO", ":", "<">> \o Bracketed(cmd.buf) \o <<">">>) =>
        LET addr == Bracketed(cmd.buf)
        IN IF Readings(addr) = {}
           THEN /\ Replies(550, "5.1.3 Error: bad envelope recepient address format")
                /\ itp' = <<>>
                /\ UNCHANGED txVars
           ELSE \E f \in Readings(addr) :
                  /\ Len(itp') = 1
                  /\ itp'[1].hook = "CheckRecipientAddress"
                  /\ itp'[1].arg = Canonical(addr, f)
                  /\ RecipientList' \in {RecipientList, Append(RecipientList, Canonical(addr, f))}
                  /\ (Len(sent') = 1 /\ Code(sent'[1]) = 250) <=>
                        RecipientList' = Append(RecipientList, Canonical(addr, f))
      ]_vars

\* RCPT TO:<B:a@B> was accepted after a first recipient: a@b is the last of the
\* recipient list
C20_Witness ==
    /\ pc = "recv"
    /\ cmd.buf = <<"RCPT", " ", "TO", ":", "<", "B", ":", "a", "@", "B", ">">>
    /\ RecipientList = <<C_AT_D, <<"a", "@", "b">>>>
    /\ itp # <<>> /\ itp[1].arg = <<"a", "@", "b">>


---------------------------------------------------------------------------
(* C21                                                                     *)

\* no transaction, no reverse path, no recipients
Idle == ~inTransaction /\ ReversePath = <<>> /\ RecipientList = <<>>

\* C21: RSET is idempotent: from any state an RSET is answered 250 2.0.0 OK
\* and leaves the session without transaction, reverse path and recipients,
\* touching nothing else of the session; an RSET that follows changes no
\* session state at all, so N consecutive RSET leave what one RSET leaves.
C21_RsetIdempotent ==
    [][ Dispatched("RSET") =>
          /\ Replies(250, "2.0.0 OK")
          /\ Idle'
          /\ UNCHANGED <<unrecognisedCommands, dataVars>>
          /\ Idle => UNCHANGED txVars
          /\ itp' = <<>>
          /\ err' = err => pc' = "recv"
      ]_vars

\* two RSET arrived in one batch: both were answered 250 2.0.0 OK and the
\* session is idle
C21_Witness ==
    /\ pc = "recv"
    /\ Verb(cmd.buf) = "RSET"
    /\ wbuf = <<RsetOK, RsetOK>>
    /\ Idle


---------------------------------------------------------------------------
(* C22: an over-long command line                                          *)

\* a line as Receive hands it over: without its LF and the CR before it
Unended(l) ==
    IF Len(l) > 1 /\ l[Len(l) - 1] = "CR" THEN SubSeq(l, 1, Len(l) - 2) ELSE SubSeq(l, 1, Len(l) - 1)

\* C22: a Receive consumes one line and no more (the bytes up to the first
\* line feed, whatever their number, or up to the end of what the stream
\* delivered), and what follows stays in the buffer for the next Receive;
\* the line is a command if it fits the reader's
\* buffer with its line end and is invalid if it does not.  An invalid line
\* is answered with one "500 5.5.0 Error: invalid line length" and nothing
\* else: no verb's handler and no ITP callback runs, the count of
\* unrecognised commands and the transaction state stay as they were, and
\* the session goes on.
C22_LongLineConsumed ==
    [][ /\ (pc = "recv" /\ pc' = "proc") =>
              /\ wire' # <<>>
              /\ IndexOf(wire', "LF") = Len(wire') \/ (~HasLF(wire') /\ rdin' = <<>>)
              /\ Len(wire' \o rdin') >= Len(rdin)
              /\ SubSeq(wire' \o rdin', 1, Len(rdin)) = rdin
              /\ HasLF(rdin) => wire' \o rdin' = rdin
              /\ cmd'.invalid <=> Len(wire') > RdBufSize
              /\ ~cmd'.invalid => cmd'.buf = IF HasLF(wire') THEN Unended(wire') ELSE wire'
              /\ UNCHANGED <<txVars, unrecognisedCommands>>
        /\ (pc = "proc" /\ cmd.invalid) =>
              /\ Replies(500, "5.5.0 Error: invalid line length")
              /\ Len(sent') = 1
              /\ itp' = <<>>
              /\ UNCHANGED <<txVars, unrecognisedCommands, dataVars, rdin>>
              /\ err' = err => pc' = "recv"
      ]_vars

\* an over-long line that names a verb was answered inside a transaction, and
\* the line that followed it in the same segment waits in the buffer
C22_Witness ==
    /\ pc = "recv"
    /\ cmd.invalid
    /\ sent = <<InvalidLineLength>>
    /\ out = <<InvalidLineLength>>
    /\ inTransaction
    /\ RecipientList = <<C_AT_D>>
    /\ Len(wire) > RdBufSize /\ wire[1] = "RSET"
    /\ rdin = <<"RSET", "CR", "LF">>


---------------------------------------------------------------------------
(* C23: the round trip of a body that needs no dot-stuffing                *)

Contains(s, t) == \E i \in 1..(Len(s) - Len(t) + 1) : SubSeq(s, i, i + Len(t) - 1) = t

\* the bodies of the round trip: they end in CRLF, hold no CRLF.CRLF, and none
\* of their lines starts with "."
PlainBodies ==
    { b \in SeqsUpTo(Bytes, MaxWire - Len(EndOfData)) :
        /\ HasSuffix(b, crlf)
        /\ ~Contains(b, crlf \o EndOfData)
        /\ \A i \in 1..Len(LinesOf(b)) : LinesOf(b)[i][1] # "." }

\* C23: for any body B that ends in CRLF, holds no CRLF.CRLF and has no line
\* starting with ".", when the peer sends B and ends the data with CRLF.CRLF
\* (the CRLF that ends B, then ".CRLF"), ProcessMail is invoked with exactly
\* B: the session does not give up while B arrives, and once the data has
\* ended B is what ProcessMail got.
C23_PlainRoundTrip ==
    \A b \in PlainBodies :
        /\ (wire = b \o EndOfData /\ pc # "body") => Delivered(b)
        /\ HasPrefix(b \o EndOfData, wire) => err # "bufferfull"
---------------------------------------------------------------------------
(* C24: a body line longer than the reader's buffer                        *)

\* the bytes the step took from the stream
Taken == SubSeq(wire', Len(wire) + 1, Len(wire'))

\* the read of the step returned what fills the reader's buffer, without a
\* line feed
FragmentRead == pc = "body" /\ Len(wire') = Len(wire) + RdBufSize /\ ~HasLF(Taken)

\* C24: when a read of the body phase returns a buffer-full of a line that is
\* longer than the reader's buffer, the fragment is appended to the body
\* (less its leading dot at the start of a line, and unless the body is
\* oversize), startOfLine becomes false, and the body phase goes on: no error
\* ends the session.
C24_LongLineAppended ==
    [][ FragmentRead =>
          /\ pc' = "body"
          /\ err' = err
          /\ body' = BodyWritten(Taken)
          /\ oversize' = OversizeNow(Taken)
          /\ startOfLine' = FALSE
          /\ UNCHANGED txVars
      ]_vars


---------------------------------------------------------------------------
(* C25: a body line that ends in a bare LF                                 *)

\* the read of the step returned a line (Taken, up to its line feed)
LineRead == pc = "body" /\ Len(wire') > Len(wire) /\ HasLF(Taken)

\* C25: a body line that ends in LF without CR is appended to the body as it
\* is, less its leading dot when it was read at the start of a line (a body
\* that crossed the soft threshold stores nothing), and leaves startOfLine
\* false; the line read after it, while startOfLine is false, is appended
\* with its leading dot, and when it is ".CRLF" it is appended too and the
\* body phase goes on.
C25_BareLFLine ==
    [][ /\ (LineRead /\ ~HasSuffix(Taken, crlf)) =>
              /\ pc' = "body"
              /\ startOfLine' = FALSE
              /\ ~oversize' =>
                    body' = body \o (IF startOfLine /\ Taken[1] = "." THEN Tail(Taken) ELSE Taken)
        /\ (LineRead /\ ~startOfLine) =>
              /\ pc' = "body"
              /\ ~oversize' => body' = body \o Taken
              /\ startOfLine' = HasSuffix(Taken, crlf)
      ]_vars

\* ".x LF" was read at the start of a line and stored without its dot, and
\* the ".CRLF" that followed it was stored whole
C25_Witness ==
    /\ pc = "body"
    /\ wire = <<".", "x", "LF", ".", "CR", "LF">>
    /\ body = <<"x", "LF", ".", "CR", "LF">>
    /\ startOfLine
    /\ ~oversize


---------------------------------------------------------------------------
(* C26: a body that crosses the soft threshold                             *)

\* a read of the body phase returned bytes (Taken)
BodyRead == pc = "body" /\ Len(wire') > Len(wire)

\* the body is oversize, or becomes so with what the read returned
Oversized == oversize \/ Len(Stripped(Taken)) + Len(body) > MaxMessageSize + SoftMargin

\* C26: once the body with the incoming line exceeds MaxMessageSize +
\* SoftMargin, the stored body is dropped and nothing is stored any more,
\* while the body phase goes on with every further read until the
\* terminator; at the terminator the reply is 552 4.3.4, ProcessMail is not
\* called, the transaction is reset and the session goes on.
C26_OversizeDrained ==
    [][ (BodyRead /\ Oversized) =>
          /\ body' = <<>>
          /\ itp' = <<>>
          /\ IF startOfLine /\ Taken = EndOfData
             THEN /\ Replies(552, "4.3.4 Error: message too big for system")
                  /\ Idle'
                  /\ err' = err => pc' = "recv"
             ELSE /\ pc' = "body"
                  /\ oversize'
                  /\ err' = err
                  /\ UNCHANGED txVars
      ]_vars


---------------------------------------------------------------------------
(* C27: startOfLine and the end of the body                                *)

\* of the pieces ls read one after the other, with n bytes appended before
\* them: whether the last bytes appended ended with CRLF (sol: whether they
\* did before ls, or nothing was appended).  A piece is appended less its
\* dot at the start of a line; nothing is appended from the piece on with
\* which the bytes exceed the soft threshold.
RECURSIVE AppendedAtLineStart(_, _, _)
AppendedAtLineStart(ls, n, sol) ==
    IF ls = <<>> THEN sol
    ELSE LET p == IF sol /\ Head(ls)[1] = "." THEN Tail(Head(ls)) ELSE Head(ls)
         IN IF n + Len(p) > MaxMessageSize + SoftMargin THEN sol
            ELSE AppendedAtLineStart(Tail(ls), n + Len(p), HasSuffix(p, crlf))

\* nothing has been appended to the body yet, or the last bytes appended to
\* it ended with CRLF
BodyAtLineStart == AppendedAtLineStart(LinesOf(wire), 0, TRUE)

\* C27 as stated: in the body phase startOfLine is true iff nothing has been
\* appended to the body yet or the last bytes appended ended with CRLF
C27_StartOfLineIffCRLF == pc = "body" => (startOfLine <=> BodyAtLineStart)

\* C27: in the body phase, as long as the body has not crossed the soft
\* threshold, startOfLine is true iff nothing has been appended to the body
\* yet or the last bytes appended ended with CRLF
C27_StartOfLineIffCRLFWhileStored ==
    (pc = "body" /\ ~oversize) => (startOfLine <=> BodyAtLineStart)

\* the body holds a line and a line that ended in a bare LF, read with a
\* stuffed dot
C27_Witness ==
    /\ pc = "body"
    /\ ~oversize
    /\ ~startOfLine
    /\ wire = <<"x", "CR", "LF", ".", ".", "LF">>
    /\ body = <<"x", "CR", "LF", ".", "LF">>


---------------------------------------------------------------------------
(* C28: the deferred flush and a read that blocks                          *)

\* Receive has no whole line in the reader's buffer: its ReadLine waits for
\* bytes from the peer
ReadBlocks == pc = "recv" /\ ~closed /\ ~HasLF(rdin)

\* C28: when the command loop has to wait for bytes from the peer, no reply
\* written before stays in the write buffer: by the time the read returns,
\* every reply was flushed to the peer.
C28_FlushBeforeBlocking ==
    [][ (ReadBlocks /\ pc' = "proc") => wbuf' = <<>> /\ ~needsFlush' ]_vars


---------------------------------------------------------------------------
(* C29: deferred flushing as an optimisation                               *)

\* C29: the peer gets the same replies, and the session goes through the
\* same states, as with a flush at every Send.  A session that flushes at
\* every Send has handed each reply to the peer when Send returns; so with
\* deferred flushes, too, every reply written reaches the peer: when the
\* command loop has ended, and not on a failed read or write of the stream,
\* no reply is left in the write buffer.
C29_NoReplyLeftBehind == (pc = "done" /\ err # "io") => wbuf = <<>>


---------------------------------------------------------------------------
(* C30: no envelope outside a transaction                                  *)

\* C30: in every state of a session, when inTransaction is false the reverse
\* path is empty and the recipient list is empty.
C30_NoEnvelopeOutsideTransaction ==
    ~inTransaction => (ReversePath = <<>> /\ RecipientList = <<>>)

\* a transaction with a recipient was aborted by an error of ProcessMail, and
\* nothing of it is left
C30_Witness ==
    /\ pc = "done"
    /\ err = "itp"
    /\ itp # <<>>
    /\ itp[1].hook = "ProcessMail"
    /\ itp[1].tx.ReversePath # <<>>
    /\ itp[1].tx.RecipientList # <<>>
    /\ ~inTransaction
    /\ ReversePath = <<>>
    /\ RecipientList = <<>>


---------------------------------------------------------------------------
(* C31: the commands that touch nothing                                    *)

\* C31: NOOP, HELP, VRFY and EXPN, in whatever state of the transaction,
\* leave inTransaction, ReversePath, RecipientList and unrecognisedCommands
\* as they are, call no ITP hook, and do not end the session: their reply
\* (250 for NOOP and HELP, 502 for VRFY and EXPN) is not final, and unless
\* its write fails the loop reads the next command.
C31_NoEffectCommands ==
    [][ (pc = "proc" /\ ~cmd.invalid /\ Verb(cmd.buf) \in {"NOOP", "HELP", "VRFY", "EXPN"}) =>
          /\ UNCHANGED <<txVars, unrecognisedCommands>>
          /\ itp' = <<>>
          /\ Len(sent') = 1
          /\ ~sent'[1].final
          /\ Code(sent'[1]) = IF Verb(cmd.buf) \in {"NOOP", "HELP"} THEN 250 ELSE 502
          /\ err' = err => pc' = "recv"
      ]_vars

\* a VRFY was answered in a transaction that has a recipient
C31_Witness ==
    /\ pc = "recv"
    /\ Verb(cmd.buf) = "VRFY"
    /\ sent = <<NotImplemented>>
    /\ inTransaction
    /\ ReversePath # <<>>
    /\ RecipientList # <<>>

---------------------------------------------------------------------------
(* C33: the envelope while the message is delivered.                       *)

\* the envelope the session exposes
Envelope ==
    [inTransaction |-> inTransaction, ReversePath |-> ReversePath,
     RecipientList |-> RecipientList]

Cleared == [inTransaction |-> FALSE, ReversePath |-> <<>>, RecipientList |-> <<>>]

\* C33: the 354 and every step of the body phase leave the envelope as MAIL
\* and RCPT built it; ProcessMail is called only from the body phase and is
\* handed a session whose envelope is that one, in a transaction and with a
\* recipient; the envelope is cleared by the step that leaves the body phase,
\* after the call.
C33_EnvelopeAtProcessMail ==
    [][ /\ (pc # "body" /\ pc' = "body") => (Envelope' = Envelope /\ inTransaction /\ RecipientList # <<>>)
        /\ (pc = "body" /\ pc' = "body") => Envelope' = Envelope
        /\ (itp' # <<>> /\ itp'[1].hook = "ProcessMail") =>
             /\ pc = "body"
             /\ itp'[1].tx = Envelope
             /\ inTransaction
             /\ RecipientList # <<>>
        /\ (pc = "body" /\ pc' # "body") => Envelope' = Cleared
      ]_vars

C33_Witness ==
    /\ itp # <<>>
    /\ itp[1].hook = "ProcessMail"
    /\ ~itp[1].err
    /\ itp[1].tx.ReversePath # <<>>
    /\ itp[1].tx.RecipientList # <<>>
    /\ Envelope = Cleared
    /\ pc = "recv"

---------------------------------------------------------------------------
(* C34: the transaction processor after Serve has returned.                *)

\* C34: once Serve has returned (it has then closed the stream) the session
\* calls no hook of the transaction processor; in particular ProcessMail is
\* not invoked.  (The step on which Serve returns calls no hook, so a call
\* recorded in a state where Serve has returned was made after the return.)
C34_NoITPCallAfterServeReturned == serve # "waiting" => itp = <<>>

---------------------------------------------------------------------------
(* C35: the replies at a termination after a final reply.                  *)

\* C35: when the command loop ends after a final reply, without an error of
\* the stream or of the transaction processor, no reply passed to Send is
\* left in the write buffer: all of them, the final one included even when
\* its canPipeline flag is set, have been flushed to the peer.
C35_FinalReplyFlushed ==
    (pc = "done" /\ err = "nil" /\ sent # <<>> /\ sent[1].final) => wbuf = <<>>

---------------------------------------------------------------------------
(* C36: the size of the stored body.                                       *)

\* C36: in every state of the body phase the stored body is at most
\* MaxMessageSize + SoftMargin bytes long (SoftMargin stands for the 1024 of
\* the code), whatever lines and fragments the peer sends.
C36_StoredBodyBounded == pc = "body" => Len(body) <= MaxMessageSize + SoftMargin

\* the stored body is exactly at the bound, and was not dropped
C36_Witness ==
    /\ pc = "body"
    /\ ~oversize
    /\ Len(body) = MaxMessageSize + SoftMargin
    /\ Len(wire) >= Len(body)

---------------------------------------------------------------------------
(* C32, C37, C38: the supervisor.                                          *)

\* C32: a reload (SIGHUP) cancels the listeners' context only and starts the
\* listeners of the reloaded configuration; it does not cancel the context
\* the sessions run under: a session is cancelled only after RunConfig was
\* told to stop (interrupt, terminate, control.quit), never by a reload.
C32_ReloadKeepsSessions ==
    /\ (rootCancelled \/ sessions.cancelled > 0) => reason \in StopRequests \/ loads = 0
    /\ run = "wait" => loads \in configCancelled

\* C37: a listener of an older configuration and a listener of a newer one
\* never run at the same time: when RunConfig starts the listeners of the
\* reloaded configuration every listener of the one before has stopped.
C37_OldAndNewNeverTogether ==
    \A old \in 1..MaxLoads, new \in 1..MaxLoads :
        old < new => ~(listeners[old].listening > 0 /\ listeners[new].listening > 0)

\* C38: when RunConfig is told to stop (interrupt, terminate, control.quit)
\* it cancels the root context, and it calls control.wg.Done() only once
\* sessionWaitGroup has drained: at that step the root context is cancelled
\* and no session is running.
C38_DoneAfterSessionsDrained ==
    [][ /\ (run = "select" /\ run' \notin {"select", "wait"}) =>
             (run' = "shutdown" /\ rootCancelled' /\ reason' \in StopRequests)
        /\ (run # "exited" /\ run' = "exited") =>
             (run = "shutdown" /\ rootCancelled /\ sessionWaitGroup = 0)
      ]_vars

\* RunConfig was told to stop while a session was running; the session was
\* cancelled and RunConfig has signalled completion
C38_Witness ==
    /\ run = "exited"
    /\ reason \in StopRequests
    /\ sessions.cancelled > 0
    /\ sessionWaitGroup = 0

---------------------------------------------------------------------------
(* C39: the defaults of ParseConfig.                                       *)

\* C39: after ParseConfig has succeeded every server entry has a non-empty
\* protocol, and an entry given as tcp (or without a protocol) and without an
\* address has the address 0.0.0.0:25 and the protocol tcp.
C39_DefaultsApplied ==
    run \in {"select", "wait"} =>
        /\ Len(servers) = Len(confRead)
        /\ \A i \in 1..Len(servers) :
             /\ servers[i].Protocol # ""
             /\ (confRead[i].Protocol \in {"", "tcp"} /\ confRead[i].Address = "") =>
                   (servers[i].Address = "0.0.0.0:25" /\ servers[i].Protocol = "tcp")

=============================================================================
